---- MODULE Spec2Model ----
(***************************************************************************)
(* State-machine model of the anomaly detection service:                   *)
(*   - anomaly_detector/detector.py : AnomalyDetector (per-sensor rolling  *)
(*     windows, Z-score verdict, severity, learning phase)                 *)
(*   - anomaly_detector/config.py   : AnomalyConfig validation             *)
(*   - backend/app.py               : PUT /config, POST /reset,            *)
(*     POST /analyze's hand-over to the auto-reporter                      *)
(*   - backend/auto_reporter.py     : LeakyBucket, AdaptiveThreshold,      *)
(*     AutoReporter (state machine with confirmation, report decisions)    *)
(*                                                                         *)
(* Numbers.  Sensor values are integers (numpy arithmetic on them is       *)
(* exact).  Reals that the code holds as floats are kept exactly:          *)
(*   a rational is a record [num, den] with den > 0;                       *)
(*   std_dev is [kind, num, den]: "zero" = 0.0, "eps" = 1e-10,             *)
(*     "sqrt" = sqrt(num/den), "nan" = numpy's result for one sample;      *)
(*   z_score is [kind, sign, num, den]: "zero" = 0.0,                      *)
(*     "sqrt" = sign*sqrt(num/den), "eps" = sign*(num/den)*10^EpsExp.      *)
(***************************************************************************)
EXTENDS Integers, Sequences, FiniteSets, TLC

VARIABLES config,    \* AnomalyDetector.config (AnomalyConfig)
          history,   \* AnomalyDetector.history: sensor_type -> deque
          last,      \* the last call and what it returned
          script,    \* what a client still has to send (seed readings, operator calls)
          log,       \* results returned to that client, in order
          now,          \* datetime.now(), in seconds
          leaky_bucket, \* a LeakyBucket (AutoReporter.leaky_bucket)
          reporter,     \* the AutoReporter's other attributes
          tasks,        \* decisions handed to trigger_auto_report, not yet run
          rlast,        \* the last call on bucket or reporter and what it returned
          recent_logs,        \* DataLogger.recent_logs: the rows logged, in order
          active_connections, \* ConnectionManager.active_connections
          broadcasts,         \* the manager.broadcast calls that have not returned
          received            \* what each websocket was sent, in order

detVars == <<config, history, last, script, log>>

repVars == <<now, leaky_bucket, reporter, tasks, rlast>>

hubVars == <<recent_logs, active_connections, broadcasts, received>>

vars == <<config, history, last, script, log, now, leaky_bucket, reporter, tasks, rlast,
          recent_logs, active_connections, broadcasts, received>>

(***************************************************************************)
(* Bounds of the model and program constants                               *)
(***************************************************************************)
MaxWindow == 3          \* largest window_size / min_training_size explored
EpsExp == 10            \* std_dev == 0 is replaced by 1e-10 = 10^-EpsExp

SensorTypes == {"a", "b"}

\* the readings clients send: <<sensor_type, value>>
Readings == ({"a"} \X {0, 1, 2}) \cup ({"b"} \X {0, 1})

Rat(n, d) == [num |-> n, den |-> d]

\* z_score_threshold values a configuration may carry
Thresholds == {Rat(2, 1), Rat(3, 1)}

\* AnomalyConfig.sensors: no per-sensor section, or one for sensor "a"
NoOverrides == [k \in {} |-> [none |-> 0]]

SensorOverrides ==
    { NoOverrides, [a |-> [threshold |-> Rat(3, 2), min_training_size |-> 2]] }

(***************************************************************************)
(* Exact arithmetic helpers                                                *)
(***************************************************************************)
Abs(x) == IF x < 0 THEN -x ELSE x

Sign(x) == IF x < 0 THEN -1 ELSE IF x > 0 THEN 1 ELSE 0

RECURSIVE GCD(_, _)
GCD(a, b) == IF b = 0 THEN a ELSE GCD(b, a % b)

\* (a/b) * (c/d) in lowest terms, cancelling before multiplying
RatMul(a, b, c, d) ==
    LET g1 == GCD(a, d)
        g2 == GCD(c, b)
        a1 == IF g1 = 0 THEN a ELSE a \div g1
        d1 == IF g1 = 0 THEN d ELSE d \div g1
        c1 == IF g2 = 0 THEN c ELSE c \div g2
        b1 == IF g2 = 0 THEN b ELSE b \div g2
    IN  Rat(a1 * c1, b1 * d1)

\* a/b > c/d and a/b >= c/d for b, d > 0
RatGt(a, b, c, d) == a * d > c * b
RatGe(a, b, c, d) == a * d >= c * b

\* a * 10^k > b for a, b >= 0, without forming 10^k
RECURSIVE ScaledGt(_, _, _)
ScaledGt(a, k, b) == IF k = 0 THEN a > b ELSE ScaledGt(a, k - 1, b \div 10)

RECURSIVE SumSeq(_)
SumSeq(s) == IF s = <<>> THEN 0 ELSE Head(s) + SumSeq(Tail(s))

\* sum over the window of (n*x - S)^2  =  n^2 * sum (x - mean)^2
RECURSIVE SumSqDev(_, _, _)
SumSqDev(s, n, S) ==
    IF s = <<>> THEN 0
    ELSE (n * Head(s) - S) * (n * Head(s) - S) + SumSqDev(Tail(s), n, S)

(***************************************************************************)
(* AnomalyConfig                                                           *)
(***************************************************************************)
\* variant: min_data_points is not held against window_size
post_init_without_window_bound(c) ==
    /\ ~(c.window_size < 1)
    /\ ~(c.z_score_threshold.num <= 0)
    /\ ~(c.min_data_points < 2)
    /\ ~(c.min_training_size < c.min_data_points)

\* __post_init__: TRUE iff no ValueError is raised
post_init(c) ==
    /\ ~(c.window_size < 1)
    /\ ~(c.z_score_threshold.num <= 0)
    /\ ~(c.min_data_points < 2)
    /\ ~(c.min_training_size < c.min_data_points)
    /\ ~(c.min_data_points > c.window_size)

AnomalyConfig(w, t, mdp, mts, sens) ==
    [window_size |-> w, z_score_threshold |-> t, min_data_points |-> mdp,
     min_training_size |-> mts, sensors |-> sens]

\* self.config.sensors.get(sensor_type, {})
sensor_config(c, s) == IF s \in DOMAIN c.sensors THEN c.sensors[s] ELSE [none |-> 0]

\* sensor_config.get('threshold', self.config.z_score_threshold)
effective_threshold(c, s) ==
    IF "threshold" \in DOMAIN sensor_config(c, s)
    THEN sensor_config(c, s).threshold ELSE c.z_score_threshold

\* sensor_config.get('min_training_size', self.config.min_training_size)
effective_min_training_size(c, s) ==
    IF "min_training_size" \in DOMAIN sensor_config(c, s)
    THEN sensor_config(c, s).min_training_size ELSE c.min_training_size

(***************************************************************************)
(* Rolling windows: defaultdict(lambda: deque(maxlen=window_size))         *)
(***************************************************************************)
NewDeque(c) == [maxlen |-> c.window_size, items |-> <<>>]

\* self.history[sensor_type]: a lookup creates the missing window
Lookup(h, c, s) ==
    IF s \in DOMAIN h THEN h
    ELSE [k \in DOMAIN h \cup {s} |-> IF k = s THEN NewDeque(c) ELSE h[k]]

\* variant: a full deque refuses the new element instead of evicting its head
deque_append_drop_new(d, x) ==
    [d EXCEPT !.items = IF Len(d.items) >= d.maxlen THEN d.items
                        ELSE Append(d.items, x)]

\* deque.append with maxlen: the head is evicted when the deque is full
deque_append(d, x) ==
    [d EXCEPT !.items = IF Len(d.items) >= d.maxlen
                        THEN Tail(Append(d.items, x))
                        ELSE Append(d.items, x)]

(***************************************************************************)
(* Statistics and Z-score                                                  *)
(***************************************************************************)
ZeroStd == [kind |-> "zero", num |-> 0, den |-> 1]
EpsStd == [kind |-> "eps", num |-> 0, den |-> 1]
ZeroZ == [kind |-> "zero", sign |-> 0, num |-> 0, den |-> 1]

\* variant: the std_dev == 0 guard is missing
calculate_statistics_no_guard(items) ==
    LET n == Len(items)
        S == SumSeq(items)
        ssd == SumSqDev(items, n, S)
    IN  IF n = 0 THEN [mean |-> Rat(0, 1), std_dev |-> ZeroStd]
        ELSE IF n = 1 THEN [mean |-> Rat(S, 1),
                            std_dev |-> [kind |-> "nan", num |-> 0, den |-> 1]]
        ELSE [mean |-> Rat(S, n),
              std_dev |-> IF ssd = 0 THEN ZeroStd
                          ELSE [kind |-> "sqrt", num |-> ssd, den |-> n * n * (n - 1)]]

\* variant: population standard deviation (ddof = 0)
calculate_statistics_ddof0(items) ==
    LET n == Len(items)
        S == SumSeq(items)
        ssd == SumSqDev(items, n, S)
    IN  IF n = 0 THEN [mean |-> Rat(0, 1), std_dev |-> ZeroStd]
        ELSE [mean |-> Rat(S, n),
              std_dev |-> IF ssd = 0 THEN EpsStd
                          ELSE [kind |-> "sqrt", num |-> ssd, den |-> n * n * n]]

\* _calculate_statistics: (mean, std_dev) of the window, ddof = 1
calculate_statistics(items) ==
    LET n == Len(items)
        S == SumSeq(items)
        ssd == SumSqDev(items, n, S)
    IN  IF n = 0 THEN [mean |-> Rat(0, 1), std_dev |-> ZeroStd]
        ELSE IF n = 1 THEN [mean |-> Rat(S, 1),
                            std_dev |-> [kind |-> "nan", num |-> 0, den |-> 1]]
        ELSE [mean |-> Rat(S, n),
              std_dev |-> IF ssd = 0 THEN EpsStd
                          ELSE [kind |-> "sqrt", num |-> ssd, den |-> n * n * (n - 1)]]

\* _calculate_z_score: (value - mean) / std_dev
calculate_z_score(value, mean, std_dev) ==
    LET d == value * mean.den - mean.num
    IN  IF std_dev.kind = "eps"
        THEN [kind |-> "eps", sign |-> Sign(d), num |-> Abs(d), den |-> mean.den]
        ELSE LET q == RatMul(d * d, mean.den * mean.den, std_dev.den, std_dev.num)
             IN  [kind |-> "sqrt", sign |-> Sign(d), num |-> q.num, den |-> q.den]

\* abs(z) > t * (mnum/mden), t a rational threshold
AbsZGt(z, t, mnum, mden) ==
    LET p == t.num * mnum
        q == t.den * mden
    IN  IF p < 0 THEN TRUE
        ELSE CASE z.kind = "zero" -> FALSE
               [] z.kind = "eps"  -> ScaledGt(z.num * q, EpsExp, p * z.den)
               [] OTHER           -> RatGt(z.num, z.den, p * p, q * q)

AnomalyResult(anom, s, v, mean, sd, z, t, sev, status, wsize) ==
    [is_anomaly |-> anom, sensor_type |-> s, current_value |-> v, mean |-> mean,
     std_dev |-> sd, z_score |-> z, threshold |-> t, severity |-> sev,
     system_status |-> status, window_size |-> wsize]

\* variant: High only above twice the threshold
severity_of_double(z, t) ==
    IF AbsZGt(z, t, 2, 1) THEN "High"
    ELSE IF AbsZGt(z, t, 1, 1) THEN "Medium"
    ELSE "Low"

\* the severity ladder of detect for an anomalous reading
severity_of(z, t) ==
    IF AbsZGt(z, t, 3, 2) THEN "High"
    ELSE IF AbsZGt(z, t, 1, 1) THEN "Medium"
    ELSE "Low"

\* variant: the learning phase does not suppress the anomaly test
detect_no_learning_gate(c, w, s, v) ==
    LET threshold == effective_threshold(c, s)
        min_training_size == effective_min_training_size(c, s)
        n == Len(w.items)
    IN  IF n < c.min_data_points
        THEN AnomalyResult(FALSE, s, v, Rat(v, 1), ZeroStd, ZeroZ, threshold,
                           "Normal", "Initializing", n)
        ELSE LET st == calculate_statistics(w.items)
                 z == calculate_z_score(v, st.mean, st.std_dev)
                 is_anomaly == AbsZGt(z, threshold, 1, 1)
             IN  AnomalyResult(is_anomaly, s, v, st.mean, st.std_dev, z, threshold,
                               IF is_anomaly THEN severity_of(z, threshold)
                               ELSE "Normal",
                               IF n < min_training_size THEN "Learning" ELSE "Active",
                               n)

\* variant: a window of exactly min_data_points readings still counts as too short
detect_off_by_one(c, w, s, v) ==
    LET threshold == effective_threshold(c, s)
        min_training_size == effective_min_training_size(c, s)
        n == Len(w.items)
    IN  IF n <= c.min_data_points
        THEN AnomalyResult(FALSE, s, v, Rat(v, 1), ZeroStd, ZeroZ, threshold,
                           "Normal", "Initializing", n)
        ELSE LET st == calculate_statistics(w.items)
                 z == calculate_z_score(v, st.mean, st.std_dev)
             IN  IF n < min_training_size
                 THEN AnomalyResult(FALSE, s, v, st.mean, st.std_dev, z, threshold,
                                    "Normal", "Learning", n)
                 ELSE LET is_anomaly == AbsZGt(z, threshold, 1, 1)
                      IN  AnomalyResult(is_anomaly, s, v, st.mean, st.std_dev, z,
                                        threshold,
                                        IF is_anomaly THEN severity_of(z, threshold)
                                        ELSE "Normal",
                                        "Active", n)

\* detect, on the window `w` of the reading's sensor
detect(c, w, s, v) ==
    LET threshold == effective_threshold(c, s)
        min_training_size == effective_min_training_size(c, s)
        n == Len(w.items)
    IN  IF n < c.min_data_points
        THEN AnomalyResult(FALSE, s, v, Rat(v, 1), ZeroStd, ZeroZ, threshold,
                           "Normal", "Initializing", n)
        ELSE LET st == calculate_statistics(w.items)
                 z == calculate_z_score(v, st.mean, st.std_dev)
             IN  IF n < min_training_size
                 THEN AnomalyResult(FALSE, s, v, st.mean, st.std_dev, z, threshold,
                                    "Normal", "Learning", n)
                 ELSE LET is_anomaly == AbsZGt(z, threshold, 1, 1)
                      IN  AnomalyResult(is_anomaly, s, v, st.mean, st.std_dev, z,
                                        threshold,
                                        IF is_anomaly THEN severity_of(z, threshold)
                                        ELSE "Normal",
                                        "Active", n)

\* variant: the reading is appended before the verdict is computed
add_reading_append_first(c, h, s, v) ==
    LET h1 == Lookup(h, c, s)
        h2 == [h1 EXCEPT ![s] = deque_append(h1[s], v)]
    IN  [result |-> detect(c, h2[s], s, v), history |-> h2]

\* variant: the verdict is computed on a window that misses its latest
\* reading, as a request interleaved with the previous one would see it
add_reading_stale_window(c, h, s, v) ==
    LET h1 == Lookup(h, c, s)
        stale == [h1[s] EXCEPT !.items = IF @ = <<>> THEN @
                                         ELSE SubSeq(@, 1, Len(@) - 1)]
    IN  [result |-> detect(c, stale, s, v),
         history |-> [h1 EXCEPT ![s] = deque_append(h1[s], v)]]

\* add_reading: the verdict first, the append afterwards
add_reading(c, h, s, v) ==
    LET h1 == Lookup(h, c, s)
    IN  [result |-> detect(c, h1[s], s, v),
         history |-> [h1 EXCEPT ![s] = deque_append(h1[s], v)]]

(***************************************************************************)
(* backend/auto_reporter.py: scores, thresholds and instants               *)
(*                                                                         *)
(* datetime.now() is the variable now, in whole seconds; a handler runs at *)
(* one instant.  An Optional value is <<>> (None) or <<v>>.  Scores and    *)
(* thresholds are rationals in lowest terms.                               *)
(***************************************************************************)
Q(n, d) == LET g == GCD(Abs(n), d) IN Rat(n \div g, d \div g)

QInt(n) == Rat(n, 1)

QAdd(x, y) == Q(x.num * y.den + y.num * x.den, x.den * y.den)

QSub(x, y) == Q(x.num * y.den - y.num * x.den, x.den * y.den)

QMul(x, y) == Q(x.num * y.num, x.den * y.den)

\* x / y for y > 0
QDiv(x, y) == Q(x.num * y.den, x.den * y.num)

QLe(x, y) == x.num * y.den <= y.num * x.den

QLt(x, y) == x.num * y.den < y.num * x.den

QMin(x, y) == IF QLt(y, x) THEN y ELSE x

QMax(x, y) == IF QLt(x, y) THEN y ELSE x

None == <<>>

Some(v) == <<v>>

SystemState == {"NORMAL", "WARNING", "CRITICAL"}

DatetimeMin == -1000000000   \* datetime.min: before every instant, by more than any cooldown
BufferMaxLen == 1000         \* AutoReporter.anomaly_buffer, AdaptiveThreshold._score_history
StateHistoryMaxLen == 100    \* AutoReporter._state_history

(***************************************************************************)
(* LeakyBucket                                                             *)
(***************************************************************************)
LeakyBucketConfig(cp, hp, mp, lp, rate, interval, cap) ==
    [critical_points |-> cp, high_points |-> hp, medium_points |-> mp,
     low_points |-> lp, decay_rate |-> rate, decay_interval_seconds |-> interval,
     max_bucket_capacity |-> cap]

DefaultLeakyBucketConfig == LeakyBucketConfig(15, 8, 3, 1, 5, 10, 100)

\* LeakyBucket.__init__ at instant t
LeakyBucket(cfg, t) == [config |-> cfg, score |-> QInt(0), last_decay_time |-> t]

\* a decay that may leave the score below zero
apply_decay_no_floor(b, t) ==
    LET elapsed == t - b.last_decay_time
    IN  IF elapsed >= b.config.decay_interval_seconds
        THEN [b EXCEPT !.score = QSub(@, Q(b.config.decay_rate * elapsed, 60)),
                       !.last_decay_time = t]
        ELSE b

\* variant: an access before the interval has passed restarts the interval
apply_decay_restarting(b, t) ==
    LET elapsed == t - b.last_decay_time
        decay_amount == Q(b.config.decay_rate * elapsed, 60)
    IN  IF elapsed >= b.config.decay_interval_seconds
        THEN [b EXCEPT !.score = QMax(QInt(0), QSub(@, decay_amount)),
                       !.last_decay_time = t]
        ELSE [b EXCEPT !.last_decay_time = t]

\* _apply_decay: decay_rate points per minute, once the interval has passed
apply_decay(b, t) ==
    LET elapsed == t - b.last_decay_time
        decay_amount == Q(b.config.decay_rate * elapsed, 60)
    IN  IF elapsed >= b.config.decay_interval_seconds
        THEN [b EXCEPT !.score = QMax(QInt(0), QSub(@, decay_amount)),
                       !.last_decay_time = t]
        ELSE b

\* the points of a severity; every other string counts as low
points_of(cfg, severity) ==
    CASE severity = "CRITICAL" -> cfg.critical_points
      [] severity = "HIGH" -> cfg.high_points
      [] severity = "MEDIUM" -> cfg.medium_points
      [] OTHER -> cfg.low_points

\* add_points: the bucket afterwards and the points actually added
add_points(b, severity, t) ==
    LET b1 == apply_decay(b, t)
        new_score == QMin(QAdd(b1.score, QInt(points_of(b1.config, severity))),
                          QInt(b1.config.max_bucket_capacity))
    IN  [bucket |-> [b1 EXCEPT !.score = new_score],
         actual_added |-> QSub(new_score, b1.score)]

\* the score property: decay, then the stored score
read_score(b, t) == apply_decay(b, t)

\* LeakyBucket.reset
bucket_reset(b, t) == [b EXCEPT !.score = QInt(0), !.last_decay_time = t]

(***************************************************************************)
(* AdaptiveThreshold                                                       *)
(***************************************************************************)
AdaptiveThresholdConfig(w, c, window, samples, lo, hi, margin) ==
    [base_warning_threshold |-> w, base_critical_threshold |-> c,
     adaptation_window_minutes |-> window, min_samples_for_adaptation |-> samples,
     min_threshold_multiplier |-> lo, max_threshold_multiplier |-> hi,
     hysteresis_margin |-> margin]

DefaultAdaptiveThresholdConfig ==
    AdaptiveThresholdConfig(20, 40, 30, 10, Rat(1, 2), Rat(2, 1), Rat(1, 5))

AdaptiveThreshold(cfg) ==
    [config |-> cfg,
     score_history |-> [maxlen |-> BufferMaxLen, items |-> <<>>],
     current_warning_threshold |-> QInt(cfg.base_warning_threshold),
     current_critical_threshold |-> QInt(cfg.base_critical_threshold)]

RECURSIVE QSum(_)
QSum(s) == IF s = <<>> THEN QInt(0) ELSE QAdd(Head(s).score, QSum(Tail(s)))

\* variant: the adaptation factor is used as computed, without the limits
recalculate_thresholds_unclamped(at, t) ==
    LET window_start == t - at.config.adaptation_window_minutes * 60
        recent_scores == SelectSeq(at.score_history.items, LAMBDA e : e.ts >= window_start)
        avg_score == QDiv(QSum(recent_scores), QInt(Len(recent_scores)))
        raw_factor == QAdd(QInt(1),
                           QMul(QDiv(avg_score, QInt(at.config.base_critical_threshold)),
                                Rat(3, 10)))
    IN  IF Len(recent_scores) < at.config.min_samples_for_adaptation
        THEN at
        ELSE [at EXCEPT
                !.current_warning_threshold =
                    QMul(QInt(at.config.base_warning_threshold), raw_factor),
                !.current_critical_threshold =
                    QMul(QInt(at.config.base_critical_threshold), raw_factor)]

\* _recalculate_thresholds: with too few samples in the window the current
\* thresholds stay as they are
recalculate_thresholds(at, t) ==
    LET window_start == t - at.config.adaptation_window_minutes * 60
        recent_scores == SelectSeq(at.score_history.items, LAMBDA e : e.ts >= window_start)
        avg_score == QDiv(QSum(recent_scores), QInt(Len(recent_scores)))
        raw_factor == QAdd(QInt(1),
                           QMul(QDiv(avg_score, QInt(at.config.base_critical_threshold)),
                                Rat(3, 10)))
        adaptation_factor == QMax(at.config.min_threshold_multiplier,
                                  QMin(at.config.max_threshold_multiplier, raw_factor))
    IN  IF Len(recent_scores) < at.config.min_samples_for_adaptation
        THEN at
        ELSE [at EXCEPT
                !.current_warning_threshold =
                    QMul(QInt(at.config.base_warning_threshold), adaptation_factor),
                !.current_critical_threshold =
                    QMul(QInt(at.config.base_critical_threshold), adaptation_factor)]

record_score(at, score, t) ==
    recalculate_thresholds(
        [at EXCEPT !.score_history = deque_append(@, [ts |-> t, score |-> score])], t)

\* thresholds without hysteresis
get_thresholds_no_hysteresis(at, current_state) ==
    <<at.current_warning_threshold, at.current_critical_threshold>>

\* get_thresholds: <<warning_th, critical_th>> with hysteresis for the state
get_thresholds(at, current_state) ==
    LET keep == QSub(QInt(1), at.config.hysteresis_margin)
    IN  CASE current_state = "CRITICAL" ->
               <<at.current_warning_threshold, QMul(at.current_critical_threshold, keep)>>
          [] current_state = "WARNING" ->
               <<QMul(at.current_warning_threshold, keep), at.current_critical_threshold>>
          [] OTHER ->
               <<at.current_warning_threshold, at.current_critical_threshold>>

(***************************************************************************)
(* AutoReporter                                                            *)
(***************************************************************************)
StateTransitionConfig(rwe, rce, rcx, rnr, ncd, wcd, ccd, conf) ==
    [report_on_warning_entry |-> rwe, report_on_critical_entry |-> rce,
     report_on_critical_exit |-> rcx, report_on_normal_return |-> rnr,
     normal_cooldown_minutes |-> ncd, warning_cooldown_minutes |-> wcd,
     critical_cooldown_minutes |-> ccd, state_confirmation_seconds |-> conf]

DefaultStateTransitionConfig ==
    StateTransitionConfig(TRUE, TRUE, TRUE, FALSE, 60, 15, 5, 30)

ReportingConfig(en, lb, at, st, window, multi, who, whs, whe) ==
    [enabled |-> en, leaky_bucket |-> lb, adaptive_threshold |-> at,
     state_transition |-> st, anomaly_window_minutes |-> window,
     multi_sensor_threshold |-> multi, working_hours_only |-> who,
     working_hours_start |-> whs, working_hours_end |-> whe]

DefaultReportingConfig ==
    ReportingConfig(TRUE, DefaultLeakyBucketConfig, DefaultAdaptiveThresholdConfig,
                    DefaultStateTransitionConfig, 10, 3, FALSE, 8, 18)

NewStats ==
    [total_anomalies_processed |-> 0, reports_sent |-> 0,
     reports_skipped_cooldown |-> 0, state_transitions |-> 0,
     last_report_sent |-> None, last_state_change |-> None]

\* AutoReporter.__init__ without its leaky_bucket, which is LeakyBucket(cfg.leaky_bucket, t)
AutoReporter(cfg) ==
    [config |-> cfg,
     adaptive_threshold |-> AdaptiveThreshold(cfg.adaptive_threshold),
     current_state |-> "NORMAL",
     pending_state |-> "NONE",
     pending_state_since |-> None,
     state_history |-> [maxlen |-> StateHistoryMaxLen, items |-> <<>>],
     anomaly_buffer |-> [maxlen |-> BufferMaxLen, items |-> <<>>],
     last_report_times |-> [s \in SystemState |-> DatetimeMin],
     stats |-> NewStats,
     report_pending |-> FALSE]

\* the severity add_anomaly scores: by |z_score|, raised to the anomaly's own
\* severity when that is Critical or High
upper(s) ==
    CASE s = "Critical" -> "CRITICAL" [] s = "High" -> "HIGH"
      [] s = "Medium" -> "MEDIUM" [] s = "Low" -> "LOW"
      [] s = "Normal" -> "NORMAL" [] OTHER -> s

\* the higher of the z-score's severity and the anomaly's own
bucket_severity_higher(anomaly) ==
    LET z == [num |-> Abs(anomaly.z_score.num), den |-> anomaly.z_score.den]
        by_z == IF QLt(QInt(4), z) THEN "CRITICAL"
                ELSE IF QLt(Rat(7, 2), z) THEN "HIGH"
                ELSE IF QLt(Rat(5, 2), z) THEN "MEDIUM"
                ELSE "LOW"
        anomaly_severity == upper(anomaly.severity)
        rank == [s \in {"LOW", "MEDIUM", "HIGH", "CRITICAL"} |->
                    CASE s = "LOW" -> 1 [] s = "MEDIUM" -> 2 [] s = "HIGH" -> 3
                      [] OTHER -> 4]
    IN  IF anomaly_severity \in DOMAIN rank /\ rank[anomaly_severity] > rank[by_z]
        THEN anomaly_severity
        ELSE by_z

bucket_severity(anomaly) ==
    LET z == [num |-> Abs(anomaly.z_score.num), den |-> anomaly.z_score.den]
        by_z == IF QLt(QInt(4), z) THEN "CRITICAL"
                ELSE IF QLt(Rat(7, 2), z) THEN "HIGH"
                ELSE IF QLt(Rat(5, 2), z) THEN "MEDIUM"
                ELSE "LOW"
        anomaly_severity == upper(anomaly.severity)
    IN  IF anomaly_severity \in {"CRITICAL", "HIGH"} /\ by_z \notin {"CRITICAL", "HIGH"}
        THEN anomaly_severity
        ELSE by_z

\* the buffered anomalies of the last anomaly_window_minutes
recent_anomalies(rep, t) ==
    SelectSeq(rep.anomaly_buffer.items,
              LAMBDA a : a.added_at >= t - rep.config.anomaly_window_minutes * 60)

affected_sensors(rep, t) ==
    LET recent == recent_anomalies(rep, t)
    IN  { recent[i].sensor_type : i \in 1..Len(recent) }

\* a target that is CRITICAL from the warning threshold on
derive_target_critical_from_warning(rep, th, current_score, t) ==
    IF Cardinality(affected_sensors(rep, t)) >= rep.config.multi_sensor_threshold
    THEN "CRITICAL"
    ELSE IF QLe(th[1], current_score) THEN "CRITICAL"
    ELSE "NORMAL"

\* a target derived from the score alone
derive_target_by_score(rep, th, current_score, t) ==
    IF QLe(th[2], current_score) THEN "CRITICAL"
    ELSE IF QLe(th[1], current_score) THEN "WARNING"
    ELSE "NORMAL"

\* the state the score asks for under the thresholds th, CRITICAL when enough
\* sensors are affected
derive_target(rep, th, current_score, t) ==
    IF Cardinality(affected_sensors(rep, t)) >= rep.config.multi_sensor_threshold
    THEN "CRITICAL"
    ELSE IF QLe(th[2], current_score) THEN "CRITICAL"
    ELSE IF QLe(th[1], current_score) THEN "WARNING"
    ELSE "NORMAL"

\* a pending state that is committed at once
confirmation_pending_never(rep, t) == FALSE

\* the pending state has not yet waited state_confirmation_seconds
confirmation_pending(rep, t) ==
    /\ rep.pending_state_since # None
    /\ t - rep.pending_state_since[1] < rep.config.state_transition.state_confirmation_seconds

\* a report for every flag the edge matches, whichever is enabled
trigger_of_either_flag(st, previous_state, new_state) ==
    IF new_state = "CRITICAL" /\ previous_state # "CRITICAL" /\ st.report_on_critical_entry
    THEN "critical_entry"
    ELSE IF new_state = "WARNING" /\ previous_state = "NORMAL" /\ st.report_on_warning_entry
    THEN "warning_entry"
    ELSE IF previous_state = "CRITICAL" /\ new_state # "CRITICAL" /\ st.report_on_critical_exit
    THEN "critical_exit"
    ELSE IF new_state = "NORMAL" /\ previous_state # "NORMAL" /\ st.report_on_normal_return
    THEN "normal_return"
    ELSE ""

\* which report a committed transition asks for, "" for none
trigger_of(st, previous_state, new_state) ==
    IF new_state = "CRITICAL" /\ previous_state # "CRITICAL"
    THEN (IF st.report_on_critical_entry THEN "critical_entry" ELSE "")
    ELSE IF new_state = "WARNING" /\ previous_state = "NORMAL"
    THEN (IF st.report_on_warning_entry THEN "warning_entry" ELSE "")
    ELSE IF previous_state = "CRITICAL" /\ new_state # "CRITICAL"
    THEN (IF st.report_on_critical_exit THEN "critical_exit" ELSE "")
    ELSE IF new_state = "NORMAL" /\ previous_state # "NORMAL"
    THEN (IF st.report_on_normal_return THEN "normal_return" ELSE "")
    ELSE ""

\* variant: the risk level of the anomaly severities, HIGH above MEDIUM
risk_level_of_severity(state) ==
    CASE state = "CRITICAL" -> "HIGH" [] state = "WARNING" -> "MEDIUM"
      [] state = "NORMAL" -> "LOW" [] OTHER -> "MEDIUM"

\* risk_level of a decision whose transition ends in `state`
risk_level_of(state) ==
    CASE state = "CRITICAL" -> "CRITICAL" [] state = "WARNING" -> "HIGH"
      [] state = "NORMAL" -> "LOW" [] OTHER -> "MEDIUM"

\* StateTransitionEvent of a commit
transition_event(rep, current_score, t, th, new_state) ==
    [timestamp |-> t, from_state |-> rep.current_state, to_state |-> new_state,
     bucket_score |-> current_score, warning_threshold |-> th[1],
     critical_threshold |-> th[2],
     anomaly_count |-> Len(recent_anomalies(rep, t)),
     affected_sensors |-> affected_sensors(rep, t)]

\* the confirmed change of state
commit_transition(rep, current_score, t, th, new_state) ==
    [rep EXCEPT
        !.current_state = new_state,
        !.pending_state = "NONE",
        !.pending_state_since = None,
        !.stats.state_transitions = @ + 1,
        !.stats.last_state_change = Some(t),
        !.state_history =
            deque_append(@, transition_event(rep, current_score, t, th, new_state))]

\* ReportDecision of a commit that asks for a report, None otherwise
report_decision(rep, current_score, t, th, new_state, trigger_type) ==
    IF trigger_type = ""
    THEN None
    ELSE Some([should_report |-> TRUE, risk_level |-> risk_level_of(new_state),
               anomaly_count |-> Len(recent_anomalies(rep, t)),
               affected_sensors |-> affected_sensors(rep, t),
               trigger_type |-> trigger_type, current_state |-> new_state,
               previous_state |-> rep.current_state, bucket_score |-> current_score,
               warning_threshold |-> th[1], critical_threshold |-> th[2]])

\* the evaluation once thresholds and target are known: no change; a new
\* pending state; a pending state still waiting; a commit
confirm_transition(rep, current_score, t, th, new_state) ==
    IF new_state = rep.current_state
    THEN [reporter |-> rep, decision |-> None]
    ELSE IF new_state # rep.pending_state
    THEN [reporter |-> [rep EXCEPT !.pending_state = new_state,
                                   !.pending_state_since = Some(t)],
          decision |-> None]
    ELSE IF confirmation_pending(rep, t)
    THEN [reporter |-> rep, decision |-> None]
    ELSE [reporter |-> commit_transition(rep, current_score, t, th, new_state),
          decision |-> report_decision(rep, current_score, t, th, new_state,
                          trigger_of(rep.config.state_transition, rep.current_state,
                                     new_state))]

evaluate_with_thresholds(rep, current_score, t, th) ==
    confirm_transition(rep, current_score, t, th,
                       derive_target(rep, th, current_score, t))

\* variant: the decision of an edge is produced again by the evaluations
\* that find the state unchanged
evaluate_state_transition_repeating(rep, current_score, t) ==
    LET th == get_thresholds(rep.adaptive_threshold, rep.current_state)
        ev == evaluate_with_thresholds(rep, current_score, t, th)
        latest == rep.state_history.items[Len(rep.state_history.items)]
    IN  IF ev.reporter = rep /\ rep.state_history.items # <<>>
        THEN [reporter |-> rep,
              decision |-> report_decision([rep EXCEPT !.current_state = latest.from_state],
                              current_score, t, th, latest.to_state,
                              trigger_of(rep.config.state_transition, latest.from_state,
                                         latest.to_state))]
        ELSE ev

\* _evaluate_state_transition: the reporter afterwards and the decision
evaluate_state_transition(rep, current_score, t) ==
    evaluate_with_thresholds(rep, current_score, t,
                             get_thresholds(rep.adaptive_threshold, rep.current_state))

cooldown_minutes_of(st, state) ==
    CASE state = "NORMAL" -> st.normal_cooldown_minutes
      [] state = "WARNING" -> st.warning_cooldown_minutes
      [] state = "CRITICAL" -> st.critical_cooldown_minutes
      [] OTHER -> st.warning_cooldown_minutes

\* variant: the cooldown taken in seconds
check_cooldown_in_seconds(rep, state, t) ==
    t - rep.last_report_times[state] < cooldown_minutes_of(rep.config.state_transition, state)

\* _check_cooldown: TRUE while the state's cooldown has not passed
check_cooldown(rep, state, t) ==
    t - rep.last_report_times[state] < cooldown_minutes_of(rep.config.state_transition, state) * 60

\* datetime.now().hour, the clock starting at midnight
hour_of(t) == (t \div 3600) % 24

check_working_hours(rep, t) ==
    \/ ~rep.config.working_hours_only
    \/ /\ rep.config.working_hours_start <= hour_of(t)
       /\ hour_of(t) < rep.config.working_hours_end

\* a gate that counts a cooldown skip also when there is no decision
gate_decision_count_none(rep, b, decision, t) ==
    IF decision = None \/ check_cooldown(rep, decision[1].current_state, t)
    THEN [reporter |-> [rep EXCEPT !.stats.reports_skipped_cooldown = @ + 1],
          leaky_bucket |-> b, decision |-> None]
    ELSE IF ~check_working_hours(rep, t) \/ rep.report_pending
    THEN [reporter |-> rep, leaky_bucket |-> b, decision |-> None]
    ELSE [reporter |-> [rep EXCEPT !.report_pending = TRUE],
          leaky_bucket |-> b, decision |-> decision]

\* variant: a report already pending does not suppress the decision
gate_decision_ignore_pending(rep, b, decision, t) ==
    IF decision = None
    THEN [reporter |-> rep, leaky_bucket |-> b, decision |-> None]
    ELSE IF check_cooldown(rep, decision[1].current_state, t)
    THEN [reporter |-> [rep EXCEPT !.stats.reports_skipped_cooldown = @ + 1],
          leaky_bucket |-> b, decision |-> None]
    ELSE IF ~check_working_hours(rep, t)
    THEN [reporter |-> rep, leaky_bucket |-> b, decision |-> None]
    ELSE [reporter |-> [rep EXCEPT !.report_pending = TRUE],
          leaky_bucket |-> b, decision |-> decision]

\* what add_anomaly returns for a decision of the evaluation: cooldown,
\* working hours and a report already pending each suppress it
gate_decision(rep, b, decision, t) ==
    IF decision = None
    THEN [reporter |-> rep, leaky_bucket |-> b, decision |-> None]
    ELSE IF check_cooldown(rep, decision[1].current_state, t)
    THEN [reporter |-> [rep EXCEPT !.stats.reports_skipped_cooldown = @ + 1],
          leaky_bucket |-> b, decision |-> None]
    ELSE IF ~check_working_hours(rep, t) \/ rep.report_pending
    THEN [reporter |-> rep, leaky_bucket |-> b, decision |-> None]
    ELSE [reporter |-> [rep EXCEPT !.report_pending = TRUE],
          leaky_bucket |-> b, decision |-> decision]

gate_evaluation(ev, b, t) == gate_decision(ev.reporter, b, ev.decision, t)

\* the anomaly is counted and buffered
buffer_anomaly(rep, anomaly, t) ==
    [rep EXCEPT
        !.stats.total_anomalies_processed = @ + 1,
        !.anomaly_buffer = deque_append(@,
            [sensor_type |-> anomaly.sensor_type, z_score |-> anomaly.z_score,
             severity |-> anomaly.severity, added_at |-> t])]

\* the score b holds is recorded and evaluated
score_anomaly(rep, b, t) ==
    gate_evaluation(
        evaluate_state_transition(
            [rep EXCEPT !.adaptive_threshold = record_score(@, b.score, t)],
            b.score, t),
        b, t)

\* an add_anomaly that does not look at config.enabled
add_anomaly_while_disabled(rep, b, anomaly, t) ==
    IF ~anomaly.is_anomaly
    THEN [reporter |-> rep, leaky_bucket |-> b, decision |-> None]
    ELSE score_anomaly(buffer_anomaly(rep, anomaly, t),
                       read_score(add_points(b, bucket_severity(anomaly), t).bucket, t),
                       t)

\* add_anomaly: reporter and bucket afterwards, and the decision returned
add_anomaly(rep, b, anomaly, t) ==
    IF ~anomaly.is_anomaly \/ ~rep.config.enabled
    THEN [reporter |-> rep, leaky_bucket |-> b, decision |-> None]
    ELSE score_anomaly(buffer_anomaly(rep, anomaly, t),
                       read_score(add_points(b, bucket_severity(anomaly), t).bucket, t),
                       t)

\* mark_report_triggered(decision)
mark_report_triggered(rep, decision, t) ==
    [rep EXCEPT !.last_report_times[decision.current_state] = t,
                !.stats.reports_sent = @ + 1,
                !.stats.last_report_sent = Some(t),
                !.report_pending = FALSE]

\* AutoReporter.reset: thresholds, report times and report_pending stay
reporter_reset(rep) ==
    [rep EXCEPT !.anomaly_buffer.items = <<>>,
                !.current_state = "NORMAL",
                !.pending_state = "NONE",
                !.pending_state_since = None,
                !.stats = NewStats]

\* update_config(**kwargs): the keys it knows overwrite the configuration; a
\* leaky_bucket or adaptive_threshold section also rebuilds that component
update_section(section, data) ==
    [k \in DOMAIN section |-> IF k \in DOMAIN data THEN data[k] ELSE section[k]]

update_config(rep, b, kwargs, t) ==
    LET main == { "enabled", "anomaly_window_minutes", "multi_sensor_threshold",
                  "working_hours_only", "working_hours_start", "working_hours_end" }
        sections == { "leaky_bucket", "adaptive_threshold", "state_transition" }
        cfg == [k \in DOMAIN rep.config |->
                  IF k \in DOMAIN kwargs /\ k \in main THEN kwargs[k]
                  ELSE IF k \in DOMAIN kwargs /\ k \in sections
                       THEN update_section(rep.config[k], kwargs[k])
                  ELSE rep.config[k]]
    IN  [reporter |-> [rep EXCEPT
                         !.config = cfg,
                         !.adaptive_threshold =
                             IF "adaptive_threshold" \in DOMAIN kwargs
                             THEN AdaptiveThreshold(cfg.adaptive_threshold) ELSE @],
         leaky_bucket |-> IF "leaky_bucket" \in DOMAIN kwargs
                          THEN LeakyBucket(cfg.leaky_bucket, t) ELSE b]

\* force_state(state)
force_state(rep, state) ==
    [rep EXCEPT !.current_state = state,
                !.pending_state = "NONE",
                !.pending_state_since = None]

(***************************************************************************)
(* State, calls and their results                                          *)
(***************************************************************************)
NoResult == AnomalyResult(FALSE, "", 0, Rat(0, 1), ZeroStd, ZeroZ, Rat(0, 1),
                          "", "", 0)

Call(op, s, v, ok, r) ==
    [op |-> op, sensor_type |-> s, value |-> v, ok |-> ok, result |-> r]

EmptyHistory == [k \in {} |-> NewDeque([window_size |-> 0])]

\* what a call on bucket or reporter returned: a decision, or a score
RCall(op, decision, value) == [op |-> op, decision |-> decision, value |-> value]

\* the reporter as constructed, before any call on it
RepIdle ==
    /\ now = 0
    /\ leaky_bucket = LeakyBucket(DefaultLeakyBucketConfig, 0)
    /\ reporter = AutoReporter(DefaultReportingConfig)
    /\ tasks = <<>>
    /\ rlast = RCall("init", None, QInt(0))

MaxMemoryLogs == 1000   \* DataLogger(max_memory_logs=1000)

\* the data logger and the connection manager as constructed
HubIdle ==
    /\ recent_logs = [maxlen |-> MaxMemoryLogs, items |-> <<>>]
    /\ active_connections = <<>>
    /\ broadcasts = <<>>
    /\ received = [w \in {} |-> <<>>]

Configs ==
    { c \in { AnomalyConfig(w, t, mdp, mts, sens) :
                w \in 1..MaxWindow, t \in Thresholds, mdp \in 2..MaxWindow,
                mts \in 2..MaxWindow, sens \in SensorOverrides } :
      post_init(c) }

Init ==
    /\ config \in Configs
    /\ history = EmptyHistory
    /\ last = Call("init", "", 0, TRUE, NoResult)
    /\ script = <<>>
    /\ log = <<>>
    /\ RepIdle
    /\ HubIdle

\* POST /analyze -> detector.add_reading(reading)
AddReading ==
    \E r \in Readings :
        LET out == add_reading(config, history, r[1], r[2])
        IN  /\ history' = out.history
            /\ last' = Call("add_reading", r[1], r[2], TRUE, out.result)
            /\ UNCHANGED <<config, script, log, repVars, hubVars>>

\* detector.detect(reading): the lookup alone creates the sensor's window
Detect ==
    \E r \in Readings :
        LET h1 == Lookup(history, config, r[1])
        IN  /\ history' = h1
            /\ last' = Call("detect", r[1], r[2], TRUE,
                            detect(config, h1[r[1]], r[1], r[2]))
            /\ UNCHANGED <<config, script, log, repVars, hubVars>>

\* get_statistics_summary()["total_sensors"]: len(self.history)
total_sensors(h) == Cardinality(DOMAIN h)

\* POST /reset -> detector.clear_history()
Reset ==
    /\ history' = EmptyHistory
    /\ last' = Call("reset", "", 0, TRUE, NoResult)
    /\ UNCHANGED <<config, script, log, repVars, hubVars>>

\* PUT /config requests: the fields a request sets (the others are None)
UpdateRequests ==
    { [window_size |-> w] : w \in 1..MaxWindow }
    \cup { [z_score_threshold |-> t] : t \in Thresholds }
    \cup { [min_data_points |-> m] : m \in 2..MaxWindow }
    \cup { [min_training_size |-> m] : m \in 2..MaxWindow }
    \cup { [window_size |-> w, min_data_points |-> m, min_training_size |-> k] :
              w \in 1..MaxWindow, m \in 2..MaxWindow, k \in 2..MaxWindow }

Field(req, name, old) == IF name \in DOMAIN req THEN req[name] ELSE old

\* variant: the new config is built from the request's fields alone
merge_config_from_request(c, req) ==
    AnomalyConfig(Field(req, "window_size", c.window_size),
                  Field(req, "z_score_threshold", c.z_score_threshold),
                  Field(req, "min_data_points", c.min_data_points),
                  Field(req, "min_training_size", c.min_training_size),
                  NoOverrides)

\* current_config overwritten by the request's fields; sensors are kept
merge_config(c, req) ==
    AnomalyConfig(Field(req, "window_size", c.window_size),
                  Field(req, "z_score_threshold", c.z_score_threshold),
                  Field(req, "min_data_points", c.min_data_points),
                  Field(req, "min_training_size", c.min_training_size),
                  c.sensors)

RECURSIVE append_all(_, _)
append_all(d, items) ==
    IF items = <<>> THEN d ELSE append_all(deque_append(d, Head(items)), Tail(items))

\* variant: the readings that fit the new size are the oldest ones
migrate_history_keep_oldest(h, c) ==
    [s \in { k \in DOMAIN h : h[k].items # <<>> } |->
        [maxlen |-> c.window_size,
         items |-> SubSeq(h[s].items, 1,
                          IF Len(h[s].items) < c.window_size THEN Len(h[s].items)
                          ELSE c.window_size)]]

\* the new detector's history: every stored reading appended, in order, to a
\* deque of the new size; only sensors that hold a reading get a window
migrate_history(h, c) ==
    [s \in { k \in DOMAIN h : h[k].items # <<>> } |->
        append_all(NewDeque(c), h[s].items)]

\* PUT /config -> update_config: a ValueError of the new config leaves all as is
UpdateConfig ==
    \E req \in UpdateRequests :
        LET new_config == merge_config(config, req)
        IN  IF post_init(new_config)
            THEN /\ config' = new_config
                 /\ history' = migrate_history(history, new_config)
                 /\ last' = Call("update_config", "", 0, TRUE, NoResult)
                 /\ UNCHANGED <<script, log, repVars, hubVars>>
            ELSE /\ last' = Call("update_config", "", 0, FALSE, NoResult)
                 /\ UNCHANGED <<config, history, script, log, repVars, hubVars>>

Next == AddReading \/ Detect \/ Reset \/ UpdateConfig

Spec == Init /\ [][Next]_vars

(***************************************************************************)
(* GET /config followed by PUT /config with what it returned               *)
(***************************************************************************)
\* AnomalyConfig.to_dict, the body of GET /config
config_to_dict(c) ==
    [window_size |-> c.window_size, z_score_threshold |-> c.z_score_threshold,
     min_data_points |-> c.min_data_points,
     min_training_size |-> c.min_training_size, sensors |-> c.sensors]

\* ConfigUpdateRequest parsed from a body: the declared fields, the rest of
\* the body is ignored
ConfigUpdateRequest(body) ==
    [k \in DOMAIN body \cap {"window_size", "z_score_threshold", "min_data_points",
                             "min_training_size"} |-> body[k]]

\* the Field constraints of ConfigUpdateRequest: a request outside them is
\* answered 422 before the handler runs
request_valid(req) ==
    /\ "window_size" \in DOMAIN req
          => req.window_size >= 1 /\ req.window_size <= 100000
    /\ "z_score_threshold" \in DOMAIN req
          => /\ req.z_score_threshold.num > 0
             /\ req.z_score_threshold.num <= 10 * req.z_score_threshold.den
    /\ "min_data_points" \in DOMAIN req
          => req.min_data_points >= 2 /\ req.min_data_points <= 50000
    /\ "min_training_size" \in DOMAIN req
          => req.min_training_size >= 2 /\ req.min_training_size <= 100000

\* the configs of the service at start-up: from config.yaml or the
\* environment, the threshold also beyond what a request may carry
RoundTripConfigs ==
    { c \in { AnomalyConfig(w, t, mdp, mts, sens) :
                w \in 2..MaxWindow, t \in {Rat(2, 1), Rat(12, 1)}, mdp \in {2},
                mts \in 2..MaxWindow, sens \in SensorOverrides } :
      post_init(c) }

InitRoundTrip ==
    /\ config \in RoundTripConfigs
    /\ history = EmptyHistory
    /\ last = Call("init", "", 0, TRUE, NoResult)
    /\ script = <<>>
    /\ log = <<>>
    /\ RepIdle
    /\ HubIdle

\* PUT /config with the body of GET /config
PutGetConfig ==
    LET req == ConfigUpdateRequest(config_to_dict(config))
        new_config == merge_config(config, req)
    IN  IF request_valid(req) /\ post_init(new_config)
        THEN /\ config' = new_config
             /\ history' = migrate_history(history, new_config)
             /\ last' = Call("put_get_config", "", 0, TRUE, NoResult)
             /\ UNCHANGED <<script, log, repVars, hubVars>>
        ELSE /\ last' = Call("put_get_config", "", 0, FALSE, NoResult)
             /\ UNCHANGED <<config, history, script, log, repVars, hubVars>>

NextRoundTrip == AddReading \/ Detect \/ PutGetConfig

SpecRoundTrip == InitRoundTrip /\ [][NextRoundTrip]_vars

(***************************************************************************)
(* Seed scenarios: one client feeds a fixed stream on sensor "t" to a      *)
(* detector with min_data_points=5, min_training_size=10, threshold 2.0    *)
(***************************************************************************)
SeedWarmup == <<10, 10, 10, 10>>
SeedCalm == [i \in 1..20 |-> 10]
SeedStream(spike, final) == SeedWarmup \o <<spike>> \o SeedCalm \o <<final>>

SeedScripts == { SeedStream(spike, final) : spike \in {10, 1000}, final \in {10, 25, 1000} }

\* window sizes: one that evicts the spike, AnomalyConfig's default, app.py's default
SeedWindows == {20, 30, 100}

InitSeed ==
    /\ config \in { AnomalyConfig(w, Rat(2, 1), 5, 10, NoOverrides) : w \in SeedWindows }
    /\ history = EmptyHistory
    /\ last = Call("init", "", 0, TRUE, NoResult)
    /\ script \in SeedScripts
    /\ log = <<>>
    /\ RepIdle
    /\ HubIdle

\* the client sends its next reading and records the result
FeedNext ==
    /\ script # <<>>
    /\ LET out == add_reading(config, history, "t", Head(script))
       IN  /\ history' = out.history
           /\ last' = Call("add_reading", "t", Head(script), TRUE, out.result)
           /\ log' = Append(log, out.result)
    /\ script' = Tail(script)
    /\ UNCHANGED <<config, repVars, hubVars>>

NextSeed == FeedNext

SpecSeed == InitSeed /\ [][NextSeed]_vars

(***************************************************************************)
(* A LeakyBucket on its own: add_points, score reads and reset at the      *)
(* instants of a clock that only moves forward                             *)
(***************************************************************************)
MaxTime == 40           \* the clock stops here

\* how far the clock moves between two calls
TimeSteps == {10, 30}

\* the detector as constructed, before any call on it
DetIdle ==
    /\ config = AnomalyConfig(30, Rat(2, 1), 7, 20, NoOverrides)
    /\ history = EmptyHistory
    /\ last = Call("init", "", 0, TRUE, NoResult)
    /\ script = <<>>
    /\ log = <<>>

\* the defaults; a small bucket that leaks a point per second, every 20 seconds;
\* one that never leaks
BucketConfigs ==
    { DefaultLeakyBucketConfig,
      LeakyBucketConfig(15, 8, 3, 1, 60, 20, 20),
      LeakyBucketConfig(15, 8, 3, 0, 0, 10, 40),
      LeakyBucketConfig(15, 8, 3, 1, 6, 20, 100) }

\* the strings add_points is called with; "NORMAL" is scored as low
BucketSeverities == {"CRITICAL", "HIGH", "MEDIUM", "LOW", "NORMAL"}

InitBucket ==
    /\ DetIdle
    /\ now = 0
    /\ leaky_bucket \in { LeakyBucket(c, 0) : c \in BucketConfigs }
    /\ reporter = AutoReporter(DefaultReportingConfig)
    /\ tasks = <<>>
    /\ rlast = RCall("init", None, QInt(0))
    /\ HubIdle

Tick ==
    \E dt \in TimeSteps :
        /\ now + dt <= MaxTime
        /\ now' = now + dt
        /\ UNCHANGED <<detVars, hubVars, leaky_bucket, reporter, tasks, rlast>>

BucketAddPoints ==
    \E severity \in BucketSeverities :
        LET out == add_points(leaky_bucket, severity, now)
        IN  /\ leaky_bucket' = out.bucket
            /\ rlast' = RCall("add_points", None, out.actual_added)
            /\ UNCHANGED <<detVars, hubVars, now, reporter, tasks>>

BucketReadScore ==
    /\ leaky_bucket' = read_score(leaky_bucket, now)
    /\ rlast' = RCall("score", None, leaky_bucket'.score)
    /\ UNCHANGED <<detVars, hubVars, now, reporter, tasks>>

BucketReset ==
    /\ leaky_bucket' = bucket_reset(leaky_bucket, now)
    /\ rlast' = RCall("reset", None, QInt(0))
    /\ UNCHANGED <<detVars, hubVars, now, reporter, tasks>>

NextBucket == Tick \/ BucketAddPoints \/ BucketReadScore \/ BucketReset

SpecBucket == InitBucket /\ [][NextBucket]_vars

(***************************************************************************)
(* The AutoReporter behind POST /analyze: anomalies arrive, decisions are  *)
(* handed to trigger_auto_report, the clock moves forward                  *)
(***************************************************************************)
MaxAnomalies == 3       \* anomalies scored before the stream ends

Anomaly(is, s, z, sev) ==
    [is_anomaly |-> is, sensor_type |-> s, z_score |-> z, severity |-> sev]

\* results of the detector at threshold 2.0: one scored CRITICAL by |z| > 4, one
\* scored HIGH by its own severity, and one that is no anomaly
ReporterAnomalies ==
    { Anomaly(TRUE, "a", Rat(9, 2), "High"),
      Anomaly(TRUE, "b", Rat(-13, 4), "High"),
      Anomaly(FALSE, "a", Rat(1, 1), "Normal") }

\* the defaults, and a quick reporter: a point a second leaks, the thresholds
\* adapt from two samples on, two sensors are systemic, five seconds confirm
ReporterConfigs ==
    { DefaultReportingConfig,
      ReportingConfig(TRUE, LeakyBucketConfig(15, 8, 3, 1, 60, 10, 100),
                      AdaptiveThresholdConfig(20, 40, 30, 2, Rat(1, 2), Rat(2, 1), Rat(1, 5)),
                      StateTransitionConfig(TRUE, TRUE, TRUE, TRUE, 60, 15, 5, 5),
                      10, 2, FALSE, 8, 18) }

\* PUT /auto-report/config passes these keys (its other keys are unknown to
\* update_config); a caller of update_config may pass a section
ReporterUpdates ==
    { [enabled |-> FALSE, anomaly_window_minutes |-> 5, multi_sensor_threshold |-> 2],
      [state_transition |-> [state_confirmation_seconds |-> 0]] }

\* what an operator may do to the reporter while anomalies arrive
AdminOps ==
    { [op |-> "reset"], [op |-> "clear_buffer"] }
    \cup { [op |-> "force_state", state |-> "CRITICAL"] }
    \cup { [op |-> "update_config", kwargs |-> k] : k \in ReporterUpdates }

\* the operator does nothing, or one of these at some instant
AdminScripts == { <<>> } \cup { <<o>> : o \in AdminOps }

InitReporter ==
    /\ config = AnomalyConfig(30, Rat(2, 1), 7, 20, NoOverrides)
    /\ history = EmptyHistory
    /\ last = Call("init", "", 0, TRUE, NoResult)
    /\ script \in AdminScripts
    /\ log = <<>>
    /\ now = 0
    /\ \E cfg \in ReporterConfigs :
          /\ reporter = AutoReporter(cfg)
          /\ leaky_bucket = LeakyBucket(cfg.leaky_bucket, 0)
    /\ tasks = <<>>
    /\ rlast = RCall("init", None, QInt(0))
    /\ HubIdle

\* analyze_sensor_data: add_anomaly, and a task for the decision it returns
Analyzed(out) ==
    /\ reporter' = out.reporter
    /\ leaky_bucket' = out.leaky_bucket
    /\ tasks' = IF out.decision = None THEN tasks ELSE Append(tasks, out.decision[1])
    /\ rlast' = RCall("add_anomaly", out.decision, out.leaky_bucket.score)

AddAnomaly ==
    \E a \in ReporterAnomalies :
        /\ Len(reporter.adaptive_threshold.score_history.items) < MaxAnomalies
        /\ Analyzed(add_anomaly(reporter, leaky_bucket, a, now))
        /\ UNCHANGED <<detVars, hubVars, now>>

\* how the hand-off of a report ends: the mail went out; it did not (the mail
\* service is unconfigured, has no recipients, send_report returned success =
\* false or raised, all of which auto_report_callback logs and returns from);
\* trigger_auto_report itself raised; the LLM or SMTP call never returns
DispatchOutcomes == {"sent", "not_sent", "raised", "hangs"}

\* what a run of trigger_auto_report did
RDispatch(outcome) ==
    [op |-> "trigger_auto_report", decision |-> None, value |-> QInt(0),
     outcome |-> outcome]

\* trigger_auto_report(decision, auto_reporter), the callback ending in `outcome`
trigger_auto_report(rep, decision, outcome, t) ==
    IF recent_anomalies(rep, t) = <<>>
    THEN [rep EXCEPT !.report_pending = FALSE]
    ELSE CASE outcome = "hangs"  -> rep
           [] outcome = "raised" -> [rep EXCEPT !.report_pending = FALSE]
           [] OTHER              -> mark_report_triggered(rep, decision, t)

\* the event loop runs the task created for a decision
TriggerAutoReport ==
    /\ tasks # <<>>
    /\ \E outcome \in DispatchOutcomes :
          /\ reporter' = trigger_auto_report(reporter, Head(tasks), outcome, now)
          /\ rlast' = RDispatch(IF recent_anomalies(reporter, now) = <<>>
                                THEN "empty" ELSE outcome)
    /\ tasks' = Tail(tasks)
    /\ UNCHANGED <<detVars, hubVars, now, leaky_bucket>>

\* GET /auto-report/status -> get_stats: reading the score applies the decay
GetStats ==
    /\ leaky_bucket' = read_score(leaky_bucket, now)
    /\ rlast' = RCall("get_stats", None, leaky_bucket'.score)
    /\ UNCHANGED <<detVars, hubVars, now, reporter, tasks>>

Admin(op) ==
    /\ script # <<>>
    /\ Head(script).op = op
    /\ script' = Tail(script)
    /\ rlast' = RCall(op, None, QInt(0))
    /\ UNCHANGED <<config, history, last, log, now, tasks, hubVars>>

ReporterReset ==
    /\ Admin("reset")
    /\ reporter' = reporter_reset(reporter)
    /\ leaky_bucket' = bucket_reset(leaky_bucket, now)

ClearBuffer ==
    /\ Admin("clear_buffer")
    /\ reporter' = [reporter EXCEPT !.anomaly_buffer.items = <<>>]
    /\ UNCHANGED leaky_bucket

ForceState ==
    /\ Admin("force_state")
    /\ reporter' = force_state(reporter, Head(script).state)
    /\ UNCHANGED leaky_bucket

UpdateReporterConfig ==
    /\ Admin("update_config")
    /\ LET out == update_config(reporter, leaky_bucket, Head(script).kwargs, now)
       IN  /\ reporter' = out.reporter
           /\ leaky_bucket' = out.leaky_bucket

NextReporter ==
    \/ Tick
    \/ AddAnomaly
    \/ TriggerAutoReport
    \/ GetStats
    \/ ReporterReset
    \/ ClearBuffer
    \/ ForceState
    \/ UpdateReporterConfig

SpecReporter == InitReporter /\ [][NextReporter]_vars

(***************************************************************************)
(* AutoReporter.update_config with a section of parameters                 *)
(***************************************************************************)
\* a caller of update_config passes one section: the bucket's decay rate,
\* the base thresholds, or the confirmation time
SectionUpdates ==
    { [leaky_bucket |-> [decay_rate |-> 60]],
      [adaptive_threshold |-> [base_warning_threshold |-> 25,
                               base_critical_threshold |-> 50]],
      [state_transition |-> [state_confirmation_seconds |-> 0]] }

InitReconfigure ==
    /\ config = AnomalyConfig(30, Rat(2, 1), 7, 20, NoOverrides)
    /\ history = EmptyHistory
    /\ last = Call("init", "", 0, TRUE, NoResult)
    /\ script \in { <<[op |-> "update_config", kwargs |-> k]>> : k \in SectionUpdates }
    /\ log = <<>>
    /\ now = 0
    /\ reporter = AutoReporter(DefaultReportingConfig)
    /\ leaky_bucket = LeakyBucket(DefaultReportingConfig.leaky_bucket, 0)
    /\ tasks = <<>>
    /\ rlast = RCall("init", None, QInt(0))
    /\ HubIdle

NextReconfigure ==
    \/ Tick
    \/ AddAnomaly
    \/ TriggerAutoReport
    \/ UpdateReporterConfig

SpecReconfigure == InitReconfigure /\ [][NextReconfigure]_vars

(***************************************************************************)
(* add_anomaly over the z-scores and severities a result may carry: a       *)
(* reporter with the default configuration, at one instant                 *)
(***************************************************************************)
\* z-scores on both sides of 2.5, 3.5 and 4, and on them
SeverityScores ==
    { Rat(2, 1), Rat(5, 2), Rat(-3, 1), Rat(7, 2), Rat(-4, 1), Rat(9, 2) }

\* the detector names an anomaly Low, Medium or High; add_anomaly also knows
\* Critical
SeverityAnomalies ==
    { Anomaly(TRUE, "a", z, sev) :
        z \in SeverityScores, sev \in {"Low", "Medium", "High", "Critical"} }

InitSeverity == DetIdle /\ RepIdle /\ HubIdle

ScoreAnomaly ==
    \E a \in SeverityAnomalies :
        /\ Len(reporter.adaptive_threshold.score_history.items) < MaxAnomalies
        /\ Analyzed(add_anomaly(reporter, leaky_bucket, a, now))
        /\ UNCHANGED <<detVars, hubVars, now>>

NextSeverity == ScoreAnomaly

SpecSeverity == InitSeverity /\ [][NextSeverity]_vars

(***************************************************************************)
(* The AutoReporter under the configurations of the seed scenarios: one    *)
(* client streams anomalies, nobody polls or administers the reporter      *)
(***************************************************************************)
MaxFed == 4             \* anomalies the client streams

\* what the client streams: scored CRITICAL by |z| > 4; scored HIGH by its own
\* severity; Medium by its own severity with |z| <= 2.5
ScenarioAnomalies ==
    { Anomaly(TRUE, "a", Rat(9, 2), "High"),
      Anomaly(TRUE, "b", Rat(3, 1), "High"),
      Anomaly(TRUE, "a", Rat(9, 4), "Medium") }

\* critical_points=15 and base_critical_threshold=30 without confirmation time,
\* cooldowns 0 or critical_cooldown_minutes=5; low thresholds over a bucket
\* that leaks half a point a second, without and with confirmation time,
\* reporting either the entry into CRITICAL or the exit from it
ScenarioConfigs ==
    { ReportingConfig(TRUE, DefaultLeakyBucketConfig,
                      AdaptiveThresholdConfig(20, 30, 30, 10, Rat(1, 2), Rat(2, 1), Rat(1, 5)),
                      StateTransitionConfig(TRUE, TRUE, TRUE, FALSE, 0, 0, ccd, 0),
                      10, 3, FALSE, 8, 18) : ccd \in {0, 5} }
    \cup
    { ReportingConfig(TRUE, LeakyBucketConfig(15, 8, 3, 1, 30, 10, 100),
                      AdaptiveThresholdConfig(5, 15, 30, 10, Rat(1, 2), Rat(2, 1), Rat(1, 5)),
                      StateTransitionConfig(TRUE, ~rcx, rcx, TRUE, 0, 0, 0, conf),
                      10, 3, FALSE, 8, 18) : rcx \in BOOLEAN, conf \in {0, 30} }

InitScenario ==
    /\ DetIdle
    /\ now = 0
    /\ \E cfg \in ScenarioConfigs :
          /\ reporter = AutoReporter(cfg)
          /\ leaky_bucket = LeakyBucket(cfg.leaky_bucket, 0)
    /\ tasks = <<>>
    /\ rlast = RCall("init", None, QInt(0))
    /\ HubIdle

\* POST /analyze with an anomalous reading
FeedAnomaly ==
    \E a \in ScenarioAnomalies :
        /\ reporter.stats.total_anomalies_processed < MaxFed
        /\ Analyzed(add_anomaly(reporter, leaky_bucket, a, now))
        /\ UNCHANGED <<detVars, hubVars, now>>

NextScenario == Tick \/ FeedAnomaly \/ TriggerAutoReport

SpecScenario == InitScenario /\ [][NextScenario]_vars

\* time passes whatever the clients do, and the event loop runs every task
\* analyze_sensor_data created; whether another anomaly arrives is up to the
\* sensors
SpecScenarioFair ==
    SpecScenario /\ WF_vars(Tick) /\ WF_vars(TriggerAutoReport)

(***************************************************************************)
(* Dispatch: a longer stream of anomalies over a reporter that reports     *)
(* every transition, while the tasks of its decisions run                  *)
(***************************************************************************)
MaxStream == 6          \* anomalies the sensors stream

\* scored HIGH by its own severity (8 points); scored LOW (1 point)
DispatchAnomalies ==
    { Anomaly(TRUE, "a", Rat(9, 4), "High"),
      Anomaly(TRUE, "a", Rat(2, 1), "Low") }

\* low thresholds over a bucket that leaks half a point a second, every flag
\* on, no confirmation time; no cooldown, or one minute for every state, or
\* reports in working hours only (the clock stays within the hour after
\* midnight)
DispatchConfigs ==
    { ReportingConfig(TRUE, LeakyBucketConfig(15, 8, 3, 1, 30, 10, 100),
                      AdaptiveThresholdConfig(5, 15, 30, 10, Rat(1, 2), Rat(2, 1), Rat(1, 5)),
                      StateTransitionConfig(TRUE, TRUE, TRUE, TRUE, p[1], p[1], p[1], 0),
                      10, 3, p[2], 8, 18) :
        p \in {<<0, FALSE>>, <<1, FALSE>>, <<0, TRUE>>} }

InitDispatch ==
    /\ DetIdle
    /\ now = 0
    /\ \E cfg \in DispatchConfigs :
          /\ reporter = AutoReporter(cfg)
          /\ leaky_bucket = LeakyBucket(cfg.leaky_bucket, 0)
    /\ tasks = <<>>
    /\ rlast = RCall("init", None, QInt(0))
    /\ HubIdle

\* POST /analyze with an anomalous reading
StreamAnomaly ==
    \E a \in DispatchAnomalies :
        /\ reporter.stats.total_anomalies_processed < MaxStream
        /\ Analyzed(add_anomaly(reporter, leaky_bucket, a, now))
        /\ UNCHANGED <<detVars, hubVars, now>>

NextDispatch == Tick \/ StreamAnomaly \/ TriggerAutoReport

SpecDispatch == InitDispatch /\ [][NextDispatch]_vars

(***************************************************************************)
(* backend/app.py: the ingest pipeline.  POST /analyze runs up to its one  *)
(* await, the broadcast, without giving up the event loop; every send of   *)
(* a broadcast is a step of its own.  A broadcast in progress is           *)
(* [message, index, start, attempted]: the message, the position of the    *)
(* list iterator, and, for the record, the subscribers at its start and    *)
(* those a send was attempted to.  received[w] is what socket w was sent;  *)
(* its domain is the sockets that ever connected; script holds the ones    *)
(* that have yet to connect.                                               *)
(***************************************************************************)
MaxIngest == 4          \* readings the clients send
MaxInFlight == 2        \* requests the clients keep open at a time

\* floor of the square root of n, searched in lo..hi
RECURSIVE isqrt_between(_, _, _)
isqrt_between(lo, hi, n) ==
    IF lo >= hi THEN lo
    ELSE LET mid == (lo + hi + 1) \div 2
         IN  IF mid * mid <= n THEN isqrt_between(mid, hi, n)
             ELSE isqrt_between(lo, mid - 1, n)

\* the integer nearest to p/q, p >= 0, q > 0, halves to the even one
round_half_even(p, q) ==
    LET k == p \div q
        r == p % q
    IN  IF 2 * r > q \/ (2 * r = q /\ k % 2 = 1) THEN k + 1 ELSE k

\* round(x, 2) of a rational
round2(x) == Q(Sign(x.num) * round_half_even(100 * Abs(x.num), x.den), 100)

\* round(sqrt(num/den), 2), in hundredths
round2_sqrt(num, den) ==
    LET y == (40000 * num) \div den
        x == isqrt_between(0, 46340, y)
        tie == x % 2 = 1 /\ x * x = y /\ y * den = 40000 * num
    IN  IF tie /\ ((x - 1) \div 2) % 2 = 0 THEN (x - 1) \div 2 ELSE (x + 1) \div 2

\* AnomalyResult.to_dict: mean, std_dev and z_score rounded to two decimals.
\* A z-score over the 1e-10 deviation is beyond the model's integers and is
\* held as 10^9: it is only ever compared with 4.0, 3.5 and 2.5
to_dict(result) ==
    [is_anomaly |-> result.is_anomaly, sensor_type |-> result.sensor_type,
     current_value |-> result.current_value, mean |-> round2(result.mean),
     std_dev |-> IF result.std_dev.kind = "sqrt"
                 THEN Q(round2_sqrt(result.std_dev.num, result.std_dev.den), 100)
                 ELSE Rat(0, 1),
     z_score |-> CASE result.z_score.kind = "sqrt" ->
                        Q(result.z_score.sign
                            * round2_sqrt(result.z_score.num, result.z_score.den), 100)
                   [] result.z_score.kind = "eps" ->
                        Rat(result.z_score.sign * 1000000000, 1)
                   [] OTHER -> Rat(0, 1),
     threshold |-> result.threshold, severity |-> result.severity,
     system_status |-> result.system_status]

\* DataLogger.log_reading: the row joins recent_logs
log_reading(logs, row) == deque_append(logs, row)

\* analyze_sensor_data hands the result to the auto-reporter
observes(rep, result) == result.is_anomaly /\ rep.config.enabled

\* list.remove(x): the first occurrence leaves the list
list_remove(list, x) ==
    LET i == CHOOSE k \in 1..Len(list) : list[k] = x /\ \A j \in 1..(k - 1) : list[j] # x
    IN  SubSeq(list, 1, i - 1) \o SubSeq(list, i + 1, Len(list))

InList(list, x) == \E k \in 1..Len(list) : list[k] = x

\* manager.broadcast(message) as it enters its loop
Broadcast(message, connections) ==
    [message |-> message, index |-> 0, start |-> connections, attempted |-> <<>>]

\* one pass of the loop of broadcast b: send_json to the connection under the
\* iterator succeeds or raises; a connection that raised is removed from the
\* list the loop runs over
broadcast_step(b, connections, inbox, ok) ==
    LET connection == connections[b.index + 1]
    IN  [broadcast |-> [b EXCEPT !.index = @ + 1,
                                 !.attempted = Append(@, connection)],
         active_connections |-> IF ok \/ ~InList(connections, connection)
                                THEN connections
                                ELSE list_remove(connections, connection),
         received |-> IF ok THEN [inbox EXCEPT ![connection] = Append(@, b.message)]
                      ELSE inbox]

\* the readings the clients send: sensor "a", and one with an empty sensor_type
IngestReadings == ({"a"} \X {0, 9}) \cup ({""} \X {0})

\* window_size 3, min_data_points = min_training_size = 2 and threshold 1.0
\* over a reporter with low thresholds that reports every transition at once
InitIngest ==
    /\ config = AnomalyConfig(3, Rat(1, 1), 2, 2, NoOverrides)
    /\ history = EmptyHistory
    /\ last = Call("init", "", 0, TRUE, NoResult)
    /\ script = <<"w1">>
    /\ log = <<>>
    /\ now = 0
    /\ LET cfg == ReportingConfig(TRUE, LeakyBucketConfig(15, 8, 3, 1, 30, 10, 100),
                      AdaptiveThresholdConfig(5, 15, 30, 10, Rat(1, 2), Rat(2, 1), Rat(1, 5)),
                      StateTransitionConfig(TRUE, TRUE, TRUE, TRUE, 0, 0, 0, 0),
                      10, 3, FALSE, 8, 18)
       IN  /\ reporter = AutoReporter(cfg)
           /\ leaky_bucket = LeakyBucket(cfg.leaky_bucket, 0)
    /\ tasks = <<>>
    /\ rlast = RCall("init", None, QInt(0))
    /\ HubIdle

\* websocket_endpoint -> manager.connect: the next socket joins the list
Connect ==
    /\ script # <<>>
    /\ script' = Tail(script)
    /\ active_connections' = Append(active_connections, Head(script))
    /\ received' = [k \in DOMAIN received \cup {Head(script)} |->
                       IF k = Head(script) THEN <<>> ELSE received[k]]
    /\ UNCHANGED <<config, history, last, log, repVars, recent_logs, broadcasts>>

\* WebSocketDisconnect -> manager.disconnect
Disconnect ==
    \E i \in 1..Len(active_connections) :
        /\ active_connections' = list_remove(active_connections, active_connections[i])
        /\ UNCHANGED <<detVars, repVars, recent_logs, broadcasts, received>>

\* variant: the broadcast starts with the auto-reporter yet to be told
Ingested_broadcast_first(result) ==
    /\ recent_logs' = log_reading(recent_logs, to_dict(result))
    /\ UNCHANGED <<reporter, leaky_bucket, tasks, rlast>>
    /\ broadcasts' = Append(broadcasts, Broadcast(to_dict(result), active_connections))

\* the part of analyze_sensor_data after the detector: the row is logged, the
\* auto-reporter is handed an anomaly, the broadcast starts
Ingested(result) ==
    /\ recent_logs' = log_reading(recent_logs, to_dict(result))
    /\ IF observes(reporter, result)
       THEN Analyzed(add_anomaly(reporter, leaky_bucket, to_dict(result), now))
       ELSE UNCHANGED <<reporter, leaky_bucket, tasks, rlast>>
    /\ broadcasts' = Append(broadcasts, Broadcast(to_dict(result), active_connections))

\* POST /analyze up to the await of the broadcast, the clients sending one of
\* `readings`
AnalyzeOf(readings) ==
    \E r \in readings :
        /\ Len(recent_logs.items) < MaxIngest
        /\ Len(broadcasts) < MaxInFlight
        /\ LET out == add_reading(config, history, r[1], r[2])
           IN  /\ history' = out.history
               /\ last' = Call("analyze", r[1], r[2], TRUE, out.result)
               /\ Ingested(out.result)
        /\ UNCHANGED <<config, script, log, now, active_connections, received>>

\* a broadcast in progress makes its next send
BroadcastSend ==
    \E i \in 1..Len(broadcasts), ok \in BOOLEAN :
        /\ broadcasts[i].index < Len(active_connections)
        /\ LET out == broadcast_step(broadcasts[i], active_connections, received, ok)
           IN  /\ broadcasts' = [broadcasts EXCEPT ![i] = out.broadcast]
               /\ active_connections' = out.active_connections
               /\ received' = out.received
        /\ UNCHANGED <<detVars, repVars, recent_logs>>

\* the iterator of a broadcast is exhausted: broadcast returns, and with it
\* the request
BroadcastReturn ==
    \E i \in 1..Len(broadcasts) :
        /\ broadcasts[i].index >= Len(active_connections)
        /\ broadcasts' = SubSeq(broadcasts, 1, i - 1)
                            \o SubSeq(broadcasts, i + 1, Len(broadcasts))
        /\ UNCHANGED <<detVars, repVars, recent_logs, active_connections, received>>

NextIngest ==
    \/ Connect
    \/ Disconnect
    \/ AnalyzeOf(IngestReadings)
    \/ BroadcastSend
    \/ BroadcastReturn
    \/ TriggerAutoReport

SpecIngest == InitIngest /\ [][NextIngest]_vars

\* the hub: three sockets subscribe while the clients send one and the same
\* reading to a detector that is still initializing
InitBroadcast ==
    /\ config = AnomalyConfig(30, Rat(2, 1), 7, 20, NoOverrides)
    /\ history = EmptyHistory
    /\ last = Call("init", "", 0, TRUE, NoResult)
    /\ script = <<"w1", "w2", "w3">>
    /\ log = <<>>
    /\ RepIdle
    /\ HubIdle

NextBroadcast ==
    \/ Connect
    \/ Disconnect
    \/ AnalyzeOf({<<"a", 0>>})
    \/ BroadcastSend
    \/ BroadcastReturn

SpecBroadcast == InitBroadcast /\ [][NextBroadcast]_vars

\* the service with POST /reset among its requests and no subscriber
NextResetSystem ==
    \/ Tick
    \/ AnalyzeOf({<<"a", 0>>, <<"a", 9>>})
    \/ BroadcastReturn
    \/ TriggerAutoReport
    \/ Reset

SpecResetSystem == InitIngest /\ [][NextResetSystem]_vars

(***************************************************************************)
(* An AdaptiveThreshold on its own: record_score at the instants of a      *)
(* clock on which samples age out of the adaptation window                 *)
(***************************************************************************)
MaxClock == 120         \* the clock stops here
MaxSamples == 4         \* scores recorded before the stream ends

\* seconds between calls: within the window of one minute, and most of it
ClockSteps == {20, 50}

\* bucket scores: empty, at base_critical_threshold, at capacity
AdaptiveScores == {0, 40, 100}

\* a window of one minute that adapts from two samples on; multipliers
\* around 1 with the upper one within reach of the scores, and multipliers
\* that keep the thresholds above their base values
AdaptiveConfigs ==
    { AdaptiveThresholdConfig(20, 40, 1, 2, Rat(1, 2), Rat(3, 2), Rat(1, 5)),
      AdaptiveThresholdConfig(20, 40, 1, 2, Rat(6, 5), Rat(2, 1), Rat(1, 5)) }

InitAdaptive ==
    /\ DetIdle
    /\ now = 0
    /\ leaky_bucket = LeakyBucket(DefaultLeakyBucketConfig, 0)
    /\ \E at \in AdaptiveConfigs :
          reporter = AutoReporter([DefaultReportingConfig EXCEPT !.adaptive_threshold = at])
    /\ tasks = <<>>
    /\ rlast = RCall("init", None, QInt(0))
    /\ HubIdle

Elapse ==
    \E dt \in ClockSteps :
        /\ now + dt <= MaxClock
        /\ now' = now + dt
        /\ UNCHANGED <<detVars, hubVars, leaky_bucket, reporter, tasks, rlast>>

\* adaptive_threshold.record_score(score)
RecordScore ==
    \E score \in AdaptiveScores :
        /\ Len(reporter.adaptive_threshold.score_history.items) < MaxSamples
        /\ reporter' = [reporter EXCEPT
                           !.adaptive_threshold = record_score(@, QInt(score), now)]
        /\ rlast' = RCall("record_score", None, QInt(score))
        /\ UNCHANGED <<detVars, hubVars, now, leaky_bucket, tasks>>

NextAdaptive == Elapse \/ RecordScore

SpecAdaptive == InitAdaptive /\ [][NextAdaptive]_vars

(***************************************************************************)
(* A detector that is cleared in the middle of a stream                    *)
(***************************************************************************)
MaxReplay == 7          \* responses the client collects

\* variant: clearing keeps the latest reading of every window
clear_history_keep_latest(h) ==
    [s \in DOMAIN h |->
        [h[s] EXCEPT !.items = IF @ = <<>> THEN @ ELSE <<@[Len(@)]>>]]

\* clear_history: self.history.clear()
clear_history(h) == [s \in {} |-> h[s]]

ReplayReadings == ({"a"} \X {0, 9}) \cup ({"b"} \X {0})

InitReplay ==
    /\ config \in { AnomalyConfig(3, Rat(1, 1), 2, 2, sens) : sens \in SensorOverrides }
    /\ history = EmptyHistory
    /\ last = Call("init", "", 0, TRUE, NoResult)
    /\ script = <<>>
    /\ log = <<>>
    /\ RepIdle
    /\ HubIdle

\* the client sends a reading and records the result
FeedReading ==
    \E r \in ReplayReadings :
        /\ Len(log) < MaxReplay
        /\ LET out == add_reading(config, history, r[1], r[2])
           IN  /\ history' = out.history
               /\ last' = Call("add_reading", r[1], r[2], TRUE, out.result)
               /\ log' = Append(log, out.result)
        /\ UNCHANGED <<config, script, repVars, hubVars>>

\* the client clears the detector, once, and records that it did
ClearHistory ==
    /\ Len(log) < MaxReplay
    /\ \A i \in 1..Len(log) : log[i] # NoResult
    /\ history' = clear_history(history)
    /\ last' = Call("clear_history", "", 0, TRUE, NoResult)
    /\ log' = Append(log, NoResult)
    /\ UNCHANGED <<config, script, repVars, hubVars>>

NextReplay == Tick \/ FeedReading \/ ClearHistory

SpecReplay == InitReplay /\ [][NextReplay]_vars

(***************************************************************************)
(* Properties of the detector                                              *)
(***************************************************************************)
IsReading == last.op \in {"add_reading", "detect"}

\* the threshold in force for the sensor of the last call
EffThresholdOfLast ==
    IF /\ last.sensor_type \in DOMAIN config.sensors
       /\ "threshold" \in DOMAIN config.sensors[last.sensor_type]
    THEN config.sensors[last.sensor_type].threshold
    ELSE config.z_score_threshold

\* the min_training_size in force for the sensor of the last call
EffTrainingOfLast ==
    IF /\ last.sensor_type \in DOMAIN config.sensors
       /\ "min_training_size" \in DOMAIN config.sensors[last.sensor_type]
    THEN config.sensors[last.sensor_type].min_training_size
    ELSE config.min_training_size

\* the items of sensor s's window, empty when the sensor is unknown
Window(h, s) == IF s \in DOMAIN h THEN h[s].items ELSE <<>>

\* a * 10^k >= b for a, b >= 0, without forming 10^k
RECURSIVE ScaledGe(_, _, _)
ScaledGe(a, k, b) == IF k = 0 THEN a >= b ELSE ScaledGe(a, k - 1, (b + 9) \div 10)

\* std_dev >= 1e-10
StdGeEps(sd) ==
    \/ sd.kind = "eps"
    \/ sd.kind = "sqrt" /\ sd.den > 0 /\ ScaledGe(sd.num, 2 * EpsExp, sd.den)

SeedWarmupDone ==
    /\ Len(log) >= 5
    /\ [i \in 1..5 |-> log[i].current_value] = <<10, 10, 10, 10, 1000>>

SeedDone ==
    /\ Len(log) = 26
    /\ [i \in 1..26 |-> log[i].current_value] = SeedStream(1000, 25)
    /\ config.window_size >= 26

C9_ScoreWithinCapacity ==
    /\ QLe(QInt(0), leaky_bucket.score)
    /\ QLe(leaky_bucket.score, QInt(leaky_bucket.config.max_bucket_capacity))

\* add_points has just been cut short by the capacity, after a decay that
\* emptied the bucket earlier on
C9_Witness ==
    /\ rlast.op = "add_points"
    /\ leaky_bucket.score = QInt(leaky_bucket.config.max_bucket_capacity)
    /\ QLt(QInt(0), rlast.value)
    /\ QLt(rlast.value, QInt(leaky_bucket.config.high_points))
    /\ leaky_bucket.last_decay_time > 0

\* a step that committed a state transition: only a commit counts one more
Committed == reporter'.stats.state_transitions = reporter.stats.state_transitions + 1

\* C10: a state transition to a target T is never committed less than
\* state_confirmation_seconds after the evaluation that recorded T as the
\* pending state: a pending state is recorded by an evaluation together with
\* its instant, both stay until another is recorded or they are cleared, and
\* a commit takes the pending state once that long has passed
C10_CommitWaitsForConfirmation ==
    [][ /\ (reporter'.pending_state # "NONE" /\ reporter'.pending_state # reporter.pending_state)
            => /\ rlast'.op = "add_anomaly"
               /\ reporter'.pending_state_since = Some(now)
        /\ (reporter'.pending_state # "NONE" /\ reporter'.pending_state = reporter.pending_state)
            => reporter'.pending_state_since = reporter.pending_state_since
        /\ Committed
            => /\ rlast'.op = "add_anomaly"
               /\ reporter'.current_state = reporter.pending_state
               /\ reporter.pending_state_since # None
               /\ now - reporter.pending_state_since[1]
                    >= reporter.config.state_transition.state_confirmation_seconds
      ]_vars

\* a transition to WARNING has just been committed under a confirmation time
\* of 30 seconds: the evaluation at instant 0 recorded it as pending, the one
\* at instant 30 commits it
C10_Witness ==
    /\ rlast.op = "add_anomaly"
    /\ reporter.stats.state_transitions = 1
    /\ reporter.stats.total_anomalies_processed = 3
    /\ reporter.config.state_transition.state_confirmation_seconds = 30
    /\ reporter.current_state = "WARNING"
    /\ reporter.state_history.items[1].timestamp = now
    /\ reporter.anomaly_buffer.items[2].added_at = 0
    /\ reporter.anomaly_buffer.items[3].added_at = 30

\* the target an evaluation of this step derives from a score: the thresholds
\* are those after the step's score is recorded, for the state before the step
TargetOf(score) ==
    derive_target(reporter',
                  get_thresholds(reporter'.adaptive_threshold, reporter.current_state),
                  score, now)

\* C11: a transition to T commits only if T persisted as the derived target
\* for state_confirmation_seconds: every evaluation that derived another
\* target than T (the current state included) lies at least
\* state_confirmation_seconds before the commit. Stated for thresholds that
\* do not adapt and sensors too few to escalate, where the recorded score of
\* an evaluation tells its target.
C11_Original ==
    [][ Committed
          => \A i \in 1..Len(reporter'.adaptive_threshold.score_history.items) :
                LET e == reporter'.adaptive_threshold.score_history.items[i]
                IN  TargetOf(e.score) # reporter'.current_state
                      => now - e.ts >= reporter.config.state_transition.state_confirmation_seconds
      ]_vars

\* a step in which add_anomaly scored an anomaly and evaluated the state
Evaluated ==
    /\ rlast'.op = "add_anomaly"
    /\ reporter'.stats.total_anomalies_processed
         = reporter.stats.total_anomalies_processed + 1

\* current_critical_threshold * (1 - hysteresis_margin) after the step
CriticalExitThreshold ==
    QMul(reporter'.adaptive_threshold.current_critical_threshold,
         QSub(QInt(1), reporter'.adaptive_threshold.config.hysteresis_margin))

\* C12: while the state is CRITICAL, a transition out of CRITICAL commits only
\* at an evaluation whose bucket score is strictly below
\* current_critical_threshold * (1 - hysteresis_margin), and an evaluation
\* whose score is at or above that value keeps the state CRITICAL
C12_CriticalExitBelowHysteresis ==
    [][ /\ (Committed /\ reporter.current_state = "CRITICAL")
            => QLt(leaky_bucket'.score, CriticalExitThreshold)
        /\ (Evaluated /\ reporter.current_state = "CRITICAL"
              /\ QLe(CriticalExitThreshold, leaky_bucket'.score))
            => reporter'.current_state = "CRITICAL"
      ]_vars

\* an evaluation has just committed CRITICAL -> WARNING, under thresholds
\* that have adapted away from their base values
C12_Witness ==
    /\ rlast.op = "add_anomaly"
    /\ reporter.state_history.items # <<>>
    /\ LET ev == reporter.state_history.items[Len(reporter.state_history.items)]
       IN  /\ ev.timestamp = now
           /\ ev.from_state = "CRITICAL"
           /\ ev.to_state = "WARNING"
    /\ reporter.adaptive_threshold.current_critical_threshold
         # QInt(reporter.config.adaptive_threshold.base_critical_threshold)

\* a step that committed a transition from NORMAL or WARNING into CRITICAL
EnteredCritical ==
    /\ Committed
    /\ reporter.current_state # "CRITICAL"
    /\ reporter'.current_state = "CRITICAL"

\* the recent anomalies after the step come from at least
\* multi_sensor_threshold sensors
Systemic ==
    Cardinality(affected_sensors(reporter', now)) >= reporter'.config.multi_sensor_threshold

\* C13 as stated: every committed transition into CRITICAL happens at an
\* evaluation whose bucket score is at least the current critical threshold
C13_Original ==
    [][ EnteredCritical
          => QLe(reporter'.adaptive_threshold.current_critical_threshold,
                 leaky_bucket'.score)
      ]_vars

\* C13: every committed transition from NORMAL or WARNING into CRITICAL
\* happens at an evaluation whose bucket score is at least the current
\* (adapted, un-reduced) critical threshold, or at which the anomalies of the
\* last anomaly_window_minutes come from at least multi_sensor_threshold
\* distinct sensors
C13_CriticalEntryByScoreOrSensors ==
    [][ EnteredCritical
          => \/ QLe(reporter'.adaptive_threshold.current_critical_threshold,
                    leaky_bucket'.score)
             \/ Systemic
      ]_vars

\* an evaluation has just committed a transition into CRITICAL at a score
\* below the critical threshold, two sensors being affected
C13_Witness ==
    /\ rlast.op = "add_anomaly"
    /\ reporter.state_history.items # <<>>
    /\ LET ev == reporter.state_history.items[Len(reporter.state_history.items)]
       IN  /\ ev.timestamp = now
           /\ ev.from_state # "CRITICAL"
           /\ ev.to_state = "CRITICAL"
           /\ QLt(ev.bucket_score, reporter.adaptive_threshold.current_critical_threshold)
           /\ Cardinality(ev.affected_sensors) = 2

\* C14: at every state evaluation in add_anomaly at which the buffered
\* anomalies of the last anomaly_window_minutes come from at least
\* multi_sensor_threshold distinct sensors, the derived target is CRITICAL
\* whatever the score: the state is CRITICAL afterwards (it was, or the
\* transition was committed), or CRITICAL is the pending state
C14_MultiSensorTargetsCritical ==
    [][ (Evaluated /\ Systemic)
          => \/ reporter'.current_state = "CRITICAL"
             \/ reporter'.pending_state = "CRITICAL"
      ]_vars

\* an evaluation at a score below the warning threshold has just made
\* CRITICAL the pending state, sensors "a" and "b" being affected
C14_Witness ==
    /\ rlast.op = "add_anomaly"
    /\ reporter.current_state = "NORMAL"
    /\ reporter.pending_state = "CRITICAL"
    /\ reporter.pending_state_since = Some(now)
    /\ affected_sensors(reporter, now) = {"a", "b"}
    /\ reporter.config.multi_sensor_threshold = 2
    /\ QLt(leaky_bucket.score, reporter.adaptive_threshold.current_warning_threshold)

\* the anomaly is scored CRITICAL by its z-score: |z_score| > 4
ScoredCritical(a) == QLt(QInt(4), [num |-> Abs(a.z_score.num), den |-> a.z_score.den])

\* the configuration of the seed scenario "critical entry triggers a report"
CriticalEntrySeed ==
    /\ reporter.config.enabled
    /\ reporter.config.leaky_bucket.critical_points = 15
    /\ reporter.config.adaptive_threshold.base_critical_threshold = 30
    /\ reporter.config.state_transition.state_confirmation_seconds = 0
    /\ reporter.config.state_transition.normal_cooldown_minutes = 0
    /\ reporter.config.state_transition.warning_cooldown_minutes = 0
    /\ reporter.config.state_transition.critical_cooldown_minutes = 0

\* C15: under the seed configuration, once a fresh reporter has been fed
\* exactly two anomalies with |z_score| > 4 and nothing has leaked (the score
\* is 30), add_anomaly has returned exactly one ReportDecision, a
\* critical_entry from NORMAL to CRITICAL, which waits to be dispatched
C15_Original ==
    ( /\ CriticalEntrySeed
      /\ rlast.op = "add_anomaly"
      /\ reporter.stats.total_anomalies_processed = 2
      /\ \A i \in 1..Len(reporter.anomaly_buffer.items) :
            ScoredCritical(reporter.anomaly_buffer.items[i])
      /\ leaky_bucket.score = QInt(30) )
    => /\ Len(tasks) = 1
       /\ tasks[1].trigger_type = "critical_entry"
       /\ tasks[1].previous_state = "NORMAL"
       /\ tasks[1].current_state = "CRITICAL"

\* an anomaly is fed to a reporter in CRITICAL whose CRITICAL report has been
\* marked triggered at this very instant, under critical_cooldown_minutes=5
FedWithinCriticalCooldown ==
    /\ Evaluated
    /\ reporter.current_state = "CRITICAL"
    /\ reporter.stats.reports_sent > 0
    /\ reporter.last_report_times["CRITICAL"] = now
    /\ reporter.config.state_transition.critical_cooldown_minutes = 5
    /\ ScoredCritical(reporter'.anomaly_buffer.items[Len(reporter'.anomaly_buffer.items)])

\* C16 as stated: the anomaly returns no decision and counts one more report
\* skipped for cooldown
C16_Original ==
    [][ FedWithinCriticalCooldown
          => /\ rlast'.decision = None
             /\ reporter'.stats.reports_skipped_cooldown
                  = reporter.stats.reports_skipped_cooldown + 1
      ]_vars

\* C16: after a critical_entry report has been emitted and marked triggered,
\* with critical_cooldown_minutes=5, one more anomaly scored CRITICAL fed at
\* once returns no decision, leaves the state CRITICAL and leaves
\* reports_skipped_cooldown as it was: no transition, no cooldown check
C16_NoDecisionNoSkipCounted ==
    [][ FedWithinCriticalCooldown
          => /\ rlast'.decision = None
             /\ reporter'.current_state = "CRITICAL"
             /\ reporter'.stats.reports_skipped_cooldown
                  = reporter.stats.reports_skipped_cooldown
      ]_vars

\* three anomalies entered CRITICAL, the report was sent and marked, and a
\* fourth anomaly scored CRITICAL has just been fed at the same instant
C16_Witness ==
    /\ rlast.op = "add_anomaly"
    /\ rlast.decision = None
    /\ reporter.current_state = "CRITICAL"
    /\ reporter.stats.total_anomalies_processed = 4
    /\ reporter.stats.reports_sent = 1
    /\ reporter.last_report_times["CRITICAL"] = now
    /\ reporter.config.state_transition.critical_cooldown_minutes = 5
    /\ ScoredCritical(reporter.anomaly_buffer.items[4])
    /\ reporter.anomaly_buffer.items[4].added_at = now
    /\ reporter.stats.reports_skipped_cooldown = 0

\* the reporter is CRITICAL and the score, with the decay due by now, lies
\* from the warning threshold up to, but below, the hysteresis-reduced
\* critical threshold
DecayedIntoWarningBand ==
    /\ reporter.current_state = "CRITICAL"
    /\ QLe(reporter.adaptive_threshold.current_warning_threshold,
           read_score(leaky_bucket, now).score)
    /\ QLt(read_score(leaky_bucket, now).score,
           QMul(reporter.adaptive_threshold.current_critical_threshold,
                QSub(QInt(1), reporter.adaptive_threshold.config.hysteresis_margin)))

\* C17: once decay has brought the score of a CRITICAL reporter into the
\* WARNING band, the state eventually commits to WARNING, the passing of time
\* being enough
C17_Original == DecayedIntoWarningBand ~> (reporter.current_state = "WARNING")

\* nothing but the report flags stands between a commit of this step and the
\* decision add_anomaly returns: no report is pending, the new state is out
\* of cooldown, the hour is a working hour
GateOpen ==
    /\ ~reporter.report_pending
    /\ ~check_cooldown(reporter, reporter'.current_state, now)
    /\ check_working_hours(reporter, now)

\* the step's transition runs from state from to state to
Edge(from, to) == reporter.current_state = from /\ reporter'.current_state = to

C19_RejectedAnomalyChangesNothing ==
    [][ \A a \in ReporterAnomalies :
          ( /\ ~a.is_anomaly \/ ~reporter.config.enabled
            /\ Analyzed(add_anomaly(reporter, leaky_bucket, a, now)) )
          => /\ rlast'.decision = None
             /\ reporter' = reporter
             /\ leaky_bucket' = leaky_bucket
             /\ tasks' = tasks
      ]_vars

\* add_anomaly has just been called on a reporter that was disabled after it
\* had buffered an anomaly, while decay is due on a positive score
C19_Witness ==
    /\ rlast.op = "add_anomaly"
    /\ rlast.decision = None
    /\ ~reporter.config.enabled
    /\ reporter.anomaly_buffer.items # <<>>
    /\ QLt(QInt(0), leaky_bucket.score)
    /\ now - leaky_bucket.last_decay_time >= leaky_bucket.config.decay_interval_seconds

\* the severity of |z_score|: > 4 CRITICAL, > 3.5 HIGH, > 2.5 MEDIUM, else LOW
ZBucket(a) ==
    LET z == [num |-> Abs(a.z_score.num), den |-> a.z_score.den]
    IN  IF QLt(QInt(4), z) THEN "CRITICAL"
        ELSE IF QLt(Rat(7, 2), z) THEN "HIGH"
        ELSE IF QLt(Rat(5, 2), z) THEN "MEDIUM"
        ELSE "LOW"

\* LOW < MEDIUM < HIGH < CRITICAL
SeverityRank(s) ==
    CASE s = "CRITICAL" -> 4 [] s = "HIGH" -> 3 [] s = "MEDIUM" -> 2 [] OTHER -> 1

\* the anomaly the step's add_anomaly buffered
Fed == reporter'.anomaly_buffer.items[Len(reporter'.anomaly_buffer.items)]

\* the score after a step that adds the points of this severity
ScoreWith(severity) ==
    QMin(QAdd(apply_decay(leaky_bucket, now).score,
              QInt(points_of(leaky_bucket.config, severity))),
         QInt(leaky_bucket.config.max_bucket_capacity))

\* C20 as stated: add_anomaly adds the points of the higher of the z-score's
\* severity and the anomaly's own severity
C20_Original ==
    [][ Evaluated
          => leaky_bucket'.score =
               ScoreWith(IF SeverityRank(upper(Fed.severity)) > SeverityRank(ZBucket(Fed))
                         THEN upper(Fed.severity) ELSE ZBucket(Fed))
      ]_vars

\* C20: add_anomaly adds the points of the z-score's severity (> 4 CRITICAL,
\* > 3.5 HIGH, > 2.5 MEDIUM, else LOW), replaced by the anomaly's own
\* severity only when that is CRITICAL or HIGH and the z-score's severity is
\* MEDIUM or LOW; an own severity of Medium or Low never raises it
C20_OwnSeverityRaisesOnlyToHigh ==
    [][ Evaluated
          => leaky_bucket'.score =
               ScoreWith(IF upper(Fed.severity) \in {"CRITICAL", "HIGH"}
                            /\ ZBucket(Fed) \in {"MEDIUM", "LOW"}
                         THEN upper(Fed.severity) ELSE ZBucket(Fed))
      ]_vars

\* an anomaly of own severity Medium with |z_score| = 2.5 has just been
\* scored on an empty bucket, and the score is low_points
C20_Witness ==
    /\ rlast.op = "add_anomaly"
    /\ Len(reporter.anomaly_buffer.items) = 1
    /\ reporter.anomaly_buffer.items[1].severity = "Medium"
    /\ reporter.anomaly_buffer.items[1].z_score = Rat(5, 2)
    /\ leaky_bucket.score = QInt(leaky_bucket.config.low_points)

\* the step ran trigger_auto_report up to mark_report_triggered
Marked ==
    /\ rlast'.op = "trigger_auto_report"
    /\ rlast'.outcome \in {"sent", "not_sent"}

\* the committed transition of the step is one its flag reports, and the
\* state it enters is within its cooldown
ReportableWithinCooldown ==
    /\ Committed
    /\ trigger_of(reporter.config.state_transition, reporter.current_state,
                  reporter'.current_state) # ""
    /\ check_cooldown(reporter, reporter'.current_state, now)

\* C21: add_anomaly never returns a decision whose current_state is S less
\* than S's cooldown after the most recent mark_report_triggered for S: the
\* report time of S is stamped by mark_report_triggered alone, a returned
\* decision lies at least the cooldown of its state after it, and
\* reports_skipped_cooldown grows by exactly one with every reportable
\* transition suppressed for this reason and with nothing else
C21_NoDecisionWithinCooldown ==
    [][ /\ \A S \in SystemState :
              reporter'.last_report_times[S] # reporter.last_report_times[S]
                => /\ Marked
                   /\ Head(tasks).current_state = S
                   /\ reporter'.last_report_times[S] = now
        /\ (Evaluated /\ rlast'.decision # None)
              => LET S == rlast'.decision[1].current_state
                 IN  /\ S = reporter'.current_state
                     /\ now - reporter.last_report_times[S]
                           >= cooldown_minutes_of(reporter.config.state_transition, S) * 60
        /\ ReportableWithinCooldown
              => /\ rlast'.decision = None
                 /\ reporter'.stats.reports_skipped_cooldown
                      = reporter.stats.reports_skipped_cooldown + 1
        /\ reporter'.stats.reports_skipped_cooldown # reporter.stats.reports_skipped_cooldown
              => ReportableWithinCooldown
      ]_vars

\* the report of an entry into WARNING was marked, the state went back to
\* NORMAL, and the second entry into WARNING, within the minute of cooldown,
\* has just returned no decision and counted one skip
C21_Witness ==
    /\ rlast.op = "add_anomaly"
    /\ rlast.decision = None
    /\ reporter.current_state = "WARNING"
    /\ reporter.stats.state_transitions = 3
    /\ reporter.stats.reports_skipped_cooldown = 1
    /\ reporter.stats.reports_sent >= 1
    /\ reporter.last_report_times["WARNING"] # DatetimeMin
    /\ now - reporter.last_report_times["WARNING"] < 60
    /\ reporter.state_history.items[Len(reporter.state_history.items)].timestamp = now
    /\ ~reporter.report_pending

\* C22: at most one ReportDecision is in flight: add_anomaly returns a
\* decision only while no report is pending and no task waits, and sets
\* report_pending with it; the flag is cleared by a run of
\* trigger_auto_report alone; so from a returned decision to the end of its
\* task no other call of add_anomaly returns a decision, however the
\* requests and the tasks interleave
C22_OneDecisionInFlight ==
    [][ /\ (Evaluated /\ rlast'.decision # None)
              => /\ ~reporter.report_pending
                 /\ reporter'.report_pending
                 /\ tasks = <<>>
                 /\ tasks' = <<rlast'.decision[1]>>
        /\ (reporter.report_pending /\ Evaluated)
              => /\ rlast'.decision = None
                 /\ reporter'.report_pending
                 /\ tasks' = tasks
        /\ (reporter.report_pending /\ ~reporter'.report_pending)
              => rlast'.op = "trigger_auto_report"
        /\ tasks # <<>> => reporter.report_pending
      ]_vars

\* the decision of the entry into WARNING is still with its task, and the
\* entry into CRITICAL, committed meanwhile outside every cooldown, has just
\* returned no decision
C22_Witness ==
    /\ rlast.op = "add_anomaly"
    /\ rlast.decision = None
    /\ Len(tasks) = 1
    /\ tasks[1].current_state = "WARNING"
    /\ reporter.report_pending
    /\ reporter.current_state = "CRITICAL"
    /\ reporter.stats.state_transitions = 2
    /\ reporter.stats.reports_skipped_cooldown = 0
    /\ reporter.state_history.items[2].timestamp = now

\* the step is a run of trigger_auto_report on the oldest task
Dispatched ==
    /\ tasks # <<>>
    /\ tasks' = Tail(tasks)
    /\ rlast'.op = "trigger_auto_report"

\* C23 as stated: the dispatcher marks the report triggered (reports_sent
\* grows, the report time of the state is stamped) only when the mail went
\* out; when it did not, report_pending is cleared and reports_sent and
\* last_report_times stay as they were
C23_Original ==
    [][ Dispatched
          => /\ (reporter'.stats.reports_sent # reporter.stats.reports_sent
                   \/ reporter'.last_report_times # reporter.last_report_times)
                  => rlast'.outcome = "sent"
             /\ rlast'.outcome = "not_sent"
                  => /\ ~reporter'.report_pending
                     /\ reporter'.stats.reports_sent = reporter.stats.reports_sent
                     /\ reporter'.last_report_times = reporter.last_report_times
      ]_vars

\* C24 as stated: whenever report_pending is set it is eventually cleared
C24_Original == reporter.report_pending ~> ~reporter.report_pending

\* the step is the synchronous part of a POST /analyze
Ingest == last'.op = "analyze" /\ recent_logs' # recent_logs

\* the row the step logged
IngestedRow == recent_logs'.items[Len(recent_logs'.items)]

\* the step is a send of a broadcast: socket w is sent message m
SentTo(w, m) ==
    /\ w \in DOMAIN received
    /\ received'[w] = Append(received[w], m)

\* the anomalous rows among the first n of the log
RECURSIVE AnomalousRows(_, _)
AnomalousRows(rows, n) ==
    IF n = 0 THEN 0
    ELSE AnomalousRows(rows, n - 1) + (IF rows[n].is_anomaly THEN 1 ELSE 0)

C26_Original ==
    [][ (last'.op = "analyze" /\ last'.sensor_type = "" /\ last' # last)
          => /\ ~last'.ok
             /\ UNCHANGED <<history, recent_logs, broadcasts, reporter, leaky_bucket,
                            tasks>>
      ]_vars

\* the step is the return of the i-th broadcast in progress
Returned(i) ==
    /\ i \in 1..Len(broadcasts)
    /\ broadcasts' = SubSeq(broadcasts, 1, i - 1) \o SubSeq(broadcasts, i + 1, Len(broadcasts))
    /\ UNCHANGED <<active_connections, received>>

\* C27 as stated: a broadcast attempts exactly one send to every subscriber
\* registered when it starts: when it returns, each of them that is still
\* registered was attempted, once, whatever its position relative to one
\* whose send failed
C27_Original ==
    [][ \A i \in 1..Len(broadcasts) :
          Returned(i)
            => LET b == broadcasts[i]
               IN  \A k \in 1..Len(b.start) :
                      /\ InList(active_connections, b.start[k])
                            => InList(b.attempted, b.start[k])
                      /\ Cardinality({ j \in 1..Len(b.attempted) :
                                          b.attempted[j] = b.start[k] }) <= 1
      ]_vars

\* the values of sensor s among the first n rows of the log, in order
ValuesOf(rows, n, s) ==
    LET mine == SelectSeq(SubSeq(rows, 1, n), LAMBDA r : r.sensor_type = s)
    IN  [i \in 1..Len(mine) |-> mine[i].current_value]

\* the last n elements of a sequence
LastN(seq, n) == IF Len(seq) <= n THEN seq ELSE SubSeq(seq, Len(seq) - n + 1, Len(seq))

\* the window a detector holds for sensor s after the first n rows
WindowAfter(rows, n, s) ==
    [maxlen |-> config.window_size,
     items |-> LastN(ValuesOf(rows, n, s), config.window_size)]

\* what the auto-reporter buffers of a row
BufferedOf(row) ==
    [sensor_type |-> row.sensor_type, z_score |-> row.z_score, severity |-> row.severity]

ValidConfig(c) ==
    /\ c.window_size >= 1
    /\ c.z_score_threshold.num > 0
    /\ c.min_data_points >= 2
    /\ c.min_training_size >= c.min_data_points
    /\ c.min_data_points <= c.window_size

\* C29: PUT /config either installs a detector whose config satisfies every
\* validation or fails and leaves the active config and the windows as they
\* were; the config changes in no other way, so after any sequence of
\* updates the active config satisfies the validations
C29_UpdateInstallsValidOrNothing ==
    [][ /\ ValidConfig(config)
        /\ ValidConfig(config')
        /\ (last'.op = "update_config" /\ ~last'.ok) => UNCHANGED <<config, history>>
        /\ config' # config => (last'.op = "update_config" /\ last'.ok)
      ]_vars

\* an update was refused while a window held readings, after the config had
\* been replaced by an earlier update
C29_Witness ==
    /\ last.op = "update_config"
    /\ ~last.ok
    /\ \E s \in DOMAIN history : Len(history[s].items) >= 2
    /\ config.window_size = 2
    /\ config.min_data_points = 2
    /\ config.min_training_size = 3

\* the step is a successful PUT /config
Updated == last'.op = "update_config" /\ last'.ok /\ last' # last

C31_RoundTripChangesNothing ==
    [][ last'.op = "put_get_config"
          => /\ config' = config
             /\ DOMAIN history' \subseteq DOMAIN history
             /\ \A s \in DOMAIN history' : history'[s] = history[s]
             /\ \A s \in DOMAIN history : Window(history', s) = Window(history, s)
             /\ \A r \in Readings :
                   LET with == add_reading(config', history', r[1], r[2])
                       without == add_reading(config, history, r[1], r[2])
                   IN  /\ with.result = without.result
                       /\ with.history[r[1]] = without.history[r[1]]
      ]_vars

\* the round trip was accepted with sensor a holding a full window under a
\* per-sensor override and sensor b known to the detector
C31_Witness ==
    /\ last.op = "put_get_config"
    /\ last.ok
    /\ config.sensors # NoOverrides
    /\ config.window_size = 2
    /\ "a" \in DOMAIN history
    /\ history["a"].items = <<0, 2>>
    /\ "b" \in DOMAIN history

\* the step is update_config called with the section named
Reconfigured(section) ==
    /\ script # <<>>
    /\ script' = Tail(script)
    /\ Head(script).op = "update_config"
    /\ section \in DOMAIN Head(script).kwargs

\* C32 as stated: after update_config changes leaky-bucket parameters the
\* bucket score is 0 and the state machine is reset (NORMAL, no pending
\* state); after an update of thresholds or other parameters the bucket
\* score and the current state are preserved
C32_Original ==
    [][ /\ Reconfigured("leaky_bucket")
          => /\ leaky_bucket'.score = QInt(0)
             /\ reporter'.current_state = "NORMAL"
             /\ reporter'.pending_state = "NONE"
        /\ (Reconfigured("adaptive_threshold") \/ Reconfigured("state_transition"))
          => /\ leaky_bucket'.score = leaky_bucket.score
             /\ reporter'.current_state = reporter.current_state
      ]_vars

\* the step is a POST /reset
SystemReset == last.op # "reset" /\ last'.op = "reset"

\* C33 as stated: after POST /reset all detector windows are empty, the
\* auto-reporter's anomaly buffer is empty, the leaky-bucket score is 0 and
\* the state machine is in NORMAL with no pending state
C33_Original ==
    [][ SystemReset
          => /\ \A s \in DOMAIN history' : history'[s].items = <<>>
             /\ reporter'.anomaly_buffer.items = <<>>
             /\ leaky_bucket'.score = QInt(0)
             /\ reporter'.current_state = "NORMAL"
             /\ reporter'.pending_state = "NONE"
      ]_vars

\* the results a detector constructed with config c returns for the
\* readings of the results rows[from..], fed in that order
RECURSIVE FreshResults(_, _, _, _)
FreshResults(c, h, rows, from) ==
    IF from > Len(rows) THEN <<>>
    ELSE LET out == add_reading(c, h, rows[from].sensor_type, rows[from].current_value)
         IN  <<out.result>> \o FreshResults(c, out.history, rows, from + 1)

\* the position in the log of the clearing, 0 when there was none
ClearedAt ==
    IF \E i \in 1..Len(log) : log[i] = NoResult
    THEN CHOOSE i \in 1..Len(log) : log[i] = NoResult
    ELSE 0

Recorded ==
    reporter'.adaptive_threshold.score_history # reporter.adaptive_threshold.score_history

\* the samples of at that lie within the adaptation window at instant t
SamplesInWindow(at, t) ==
    Cardinality({ i \in 1..Len(at.score_history.items) :
                    at.score_history.items[i].ts
                       >= t - at.config.adaptation_window_minutes * 60 })

\* C35 as stated: whenever fewer than min_samples_for_adaptation samples lie
\* within the adaptation window at a record_score call, the current warning
\* and critical thresholds equal the base thresholds, also when samples that
\* had triggered an adaptation have since aged out
C35_Original ==
    [][ (Recorded /\ SamplesInWindow(reporter'.adaptive_threshold, now)
                       < reporter.config.adaptive_threshold.min_samples_for_adaptation)
          => /\ reporter'.adaptive_threshold.current_warning_threshold
                  = QInt(reporter.config.adaptive_threshold.base_warning_threshold)
             /\ reporter'.adaptive_threshold.current_critical_threshold
                  = QInt(reporter.config.adaptive_threshold.base_critical_threshold)
      ]_vars

\* C36 as stated: detect leaves the detector's history unchanged: no window
\* gains a reading and the set of known sensor types, as total_sensors
\* counts it, is the same before and after, also for a sensor_type never
\* seen before
C36_Original ==
    [][ last'.op = "detect"
          => /\ \A s \in DOMAIN history : history'[s] = history[s]
             /\ DOMAIN history' = DOMAIN history
             /\ total_sensors(history') = total_sensors(history)
      ]_vars

\* the factor by which the current warning threshold exceeds its base value
WarningFactor(at) ==
    QDiv(at.current_warning_threshold, QInt(at.config.base_warning_threshold))

\* both thresholds are their base values times f, and they are positive and
\* in order
ScaledBy(at, f) ==
    /\ at.current_warning_threshold = QMul(QInt(at.config.base_warning_threshold), f)
    /\ at.current_critical_threshold = QMul(QInt(at.config.base_critical_threshold), f)
    /\ QLt(QInt(0), at.current_warning_threshold)
    /\ QLt(at.current_warning_threshold, at.current_critical_threshold)

\* C37 as stated: after any sequence of record_score calls the current
\* thresholds are the base thresholds times one common factor f in
\* [min_threshold_multiplier, max_threshold_multiplier], so both are
\* positive and warning < critical
C37_Original ==
    LET at == reporter.adaptive_threshold
    IN  at.score_history.items # <<>>
          => /\ ScaledBy(at, WarningFactor(at))
             /\ QLe(at.config.min_threshold_multiplier, WarningFactor(at))
             /\ QLe(WarningFactor(at), at.config.max_threshold_multiplier)

\* C37: after any sequence of record_score calls the current thresholds are
\* the base thresholds times one common factor f, which is 1 or lies in
\* [min_threshold_multiplier, max_threshold_multiplier]; both thresholds
\* are positive and warning < critical
C37_CommonFactor ==
    LET at == reporter.adaptive_threshold
    IN  /\ ScaledBy(at, WarningFactor(at))
        /\ \/ WarningFactor(at) = QInt(1)
           \/ /\ QLe(at.config.min_threshold_multiplier, WarningFactor(at))
              /\ QLe(WarningFactor(at), at.config.max_threshold_multiplier)

\* two scores at capacity were recorded within the window: the factor is
\* held at the upper multiplier 3/2 and the thresholds are 30 and 60
C37_Witness ==
    LET at == reporter.adaptive_threshold
    IN  /\ Len(at.score_history.items) >= 2
        /\ at.config.max_threshold_multiplier = Rat(3, 2)
        /\ at.current_warning_threshold = QInt(30)
        /\ at.current_critical_threshold = QInt(60)

\* the step is an access to the bucket: add_points or a read of the score
Accessed == now' = now /\ rlast'.op \in {"add_points", "score"}

\* what the access added on top of the decayed score
AddedBy(call) == IF call.op = "add_points" THEN call.value ELSE QInt(0)

\* C38: an access made less than decay_interval_seconds after last_decay
\* applies no decay and leaves last_decay as it is; an access made later
\* subtracts decay_rate times the minutes since last_decay, whatever
\* accesses happened in between, stops at 0 and moves last_decay to now
C38_NoElapsedTimeLost ==
    [][ Accessed
          => LET elapsed == now - leaky_bucket.last_decay_time
                 decay == Q(leaky_bucket.config.decay_rate * elapsed, 60)
             IN  IF elapsed < leaky_bucket.config.decay_interval_seconds
                 THEN /\ leaky_bucket'.last_decay_time = leaky_bucket.last_decay_time
                      /\ leaky_bucket'.score = QAdd(leaky_bucket.score, AddedBy(rlast'))
                 ELSE /\ leaky_bucket'.last_decay_time = now
                      /\ leaky_bucket'.score
                           = QAdd(QMax(QInt(0), QSub(leaky_bucket.score, decay)),
                                  AddedBy(rlast'))
      ]_vars

\* 15 points at 0 s, one more at 10 s, and the score read at 20 s, the
\* interval, with 6 points a minute: 16 - 2 = 14, the 20 seconds since the
\* construction of the bucket
C38_Witness ==
    /\ leaky_bucket.config.decay_rate = 6
    /\ leaky_bucket.config.decay_interval_seconds = 20
    /\ now = 20
    /\ rlast.op = "score"
    /\ leaky_bucket.score = QInt(14)
    /\ leaky_bucket.last_decay_time = 20

\* the committed transition of the step is one its flag reports
Reportable ==
    /\ Committed
    /\ trigger_of(reporter.config.state_transition, reporter.current_state,
                  reporter'.current_state) # ""

\* the latest entry of the transition history after the step
LatestTransition == reporter'.state_history.items[Len(reporter'.state_history.items)]

\* C39: when the decision of a committed transition is suppressed in
\* add_anomaly, by cooldown, working hours or a pending report, the
\* transition stays committed and is the latest entry of the transition
\* history; and an anomaly that leaves the state as it is returns no
\* decision, so the decision of that edge is not emitted later
C39_SuppressedDecisionIsDropped ==
    [][ /\ (Evaluated /\ Reportable)
          => /\ rlast'.decision = None
                  <=> \/ check_cooldown(reporter, reporter'.current_state, now)
                      \/ ~check_working_hours(reporter, now)
                      \/ reporter.report_pending
             /\ reporter'.current_state # reporter.current_state
             /\ reporter'.pending_state = "NONE"
             /\ Len(reporter'.state_history.items)
                  = Len(reporter.state_history.items) + 1
             /\ LatestTransition.from_state = reporter.current_state
             /\ LatestTransition.to_state = reporter'.current_state
             /\ LatestTransition.timestamp = now
        /\ (Evaluated /\ reporter'.current_state = reporter.current_state)
          => /\ rlast'.decision = None
             /\ tasks' = tasks
             /\ reporter'.state_history = reporter.state_history
      ]_vars

\* outside working hours the entries into WARNING and into CRITICAL were
\* committed without a decision, and an anomaly fed later, with the state
\* still CRITICAL, returned none either
C39_Witness ==
    /\ reporter.config.working_hours_only
    /\ reporter.current_state = "CRITICAL"
    /\ reporter.stats.state_transitions = 2
    /\ reporter.state_history.items[2].to_state = "CRITICAL"
    /\ reporter.state_history.items[2].timestamp < now
    /\ rlast.op = "add_anomaly"
    /\ rlast.decision = None
    /\ reporter.anomaly_buffer.items[Len(reporter.anomaly_buffer.items)].added_at = now
    /\ ~reporter.report_pending
    /\ reporter.stats.reports_sent = 0

TriggerTypes == {"critical_entry", "warning_entry", "critical_exit", "normal_return"}

\* C40: a ReportDecision that add_anomaly returns has should_report true,
\* previous_state the state before the call and different from
\* current_state, current_state the reporter's state when the call returns,
\* risk_level CRITICAL, HIGH or LOW for current_state CRITICAL, WARNING or
\* NORMAL, and a trigger_type that fits its edge: critical_entry ends in
\* CRITICAL, warning_entry is NORMAL to WARNING, critical_exit leaves
\* CRITICAL, normal_return is WARNING to NORMAL
C40_DecisionDescribesItsEdge ==
    [][ (Evaluated /\ rlast'.decision # None)
          => LET d == rlast'.decision[1]
             IN  /\ d.should_report
                 /\ d.previous_state # d.current_state
                 /\ d.previous_state = reporter.current_state
                 /\ d.current_state = reporter'.current_state
                 /\ d.current_state = "CRITICAL" => d.risk_level = "CRITICAL"
                 /\ d.current_state = "WARNING" => d.risk_level = "HIGH"
                 /\ d.current_state = "NORMAL" => d.risk_level = "LOW"
                 /\ d.current_state \in {"CRITICAL", "WARNING", "NORMAL"}
                 /\ d.trigger_type \in TriggerTypes
                 /\ d.trigger_type = "critical_entry"
                      => d.current_state = "CRITICAL"
                 /\ d.trigger_type = "warning_entry"
                      => d.previous_state = "NORMAL" /\ d.current_state = "WARNING"
                 /\ d.trigger_type = "critical_exit"
                      => d.previous_state = "CRITICAL"
                 /\ d.trigger_type = "normal_return"
                      => d.previous_state = "WARNING" /\ d.current_state = "NORMAL"
      ]_vars

\* add_anomaly has just returned the decision of a return from WARNING to
\* NORMAL, after the decision of an entry into WARNING
C40_Witness ==
    /\ rlast.op = "add_anomaly"
    /\ rlast.decision # None
    /\ rlast.decision[1].trigger_type = "normal_return"
    /\ rlast.decision[1].risk_level = "LOW"
    /\ reporter.current_state = "NORMAL"
    /\ reporter.stats.state_transitions >= 2

====
